---------------------------- MODULE Spec2Model ----------------------------
(***************************************************************************)
(* A model of crdb-trace-extractor.                                        *)
(*                                                                         *)
(*   SegSpec   the trace segmenter of analyze_debug_zip.py                 *)
(*             (extract_slow_traces_from_file), one log file per run.      *)
(*   ClsSpec   the commit classifier of extract_commit.py (the timing,     *)
(*             network, Raft, store-send and replica-send analyzers and    *)
(*             the decision chain of main), one commit section per run.    *)
(*   RankSpec  the ranking of both pipelines (list.sort by duration,       *)
(*             reverse=True).                                              *)
(*   ExtSpec   the commit pipeline of extract_commit.py for one trace      *)
(*             file: extract_commit_from_trace, calculate_commit_duration  *)
(*             and the duration filter of main.                            *)
(*   AnaSpec   the network, Raft, store-send and replica-send analyzers,   *)
(*             each applied to a commit section.                           *)
(*   RerunSpec the segmenter called twice on the same file.                *)
(*   PipeSpec  main of extract_commit.py over the trace files of a         *)
(*             directory: the two loops and their counters.                *)
(*   ZipSpec   extract_slow_traces_from_debug_zip: the segmenter called on *)
(*             every log file, the merge, the sort and the numbering.      *)
(*                                                                         *)
(* Durations and timestamps are milliseconds, kept as integers.            *)
(***************************************************************************)
EXTENDS Integers, Sequences, FiniteSets, TLC

VARIABLES
    \* ---- segmenter (analyze_debug_zip.py, extract_slow_traces_from_file)
    lines,                    \* the file's lines (infile.readlines())
    readable,                 \* whether open()/readlines() succeeds
    min_threshold_ms,         \* parameter
    filter_pattern,           \* parameter
    pc,                       \* position in the function
    i,                        \* 1-based index of the line the loop is at
    capturing,
    current_trace_lines,
    current_trace_duration,
    traces,                   \* the list the function returns
    cur_start,                \* history: index of the buffer's first line
    starts,                   \* history: first-line index of each emitted trace
    \* ---- classifier (extract_commit.py)
    commit_section,           \* the section's lines
    cpc,                      \* position in the classification of the section
    timing_analysis,          \* result of analyze_commit_timing
    category,                 \* the category main assigns
    \* ---- ranking
    all_traces,               \* analyze_debug_zip.py: traces of every file
    valid_commits,            \* extract_commit.py: commits that passed the filter
    rpc,                      \* position in the collect-and-rank part of a pipeline
    \* ---- commit pipeline (extract_commit.py, main's loop over the trace files)
    trace_lines,              \* the trace file's lines (f.readlines())
    trace_readable,           \* whether open()/readlines() succeeds
    min_duration,             \* option --min-duration
    epc,                      \* position in the handling of the trace file
    first_line,               \* what extract_commit_from_trace returns first
    commit_duration,          \* the duration it returns
    skipped_count,
    filtered_count,
    \* ---- analyzers (extract_commit.py), applied to one commit section
    apc,                      \* which analyzer has run
    network_result,           \* what analyze_network_timing returned
    raft_result,              \* what analyze_raft_timing returned
    store_send_result,        \* what analyze_store_send_timing returned
    replica_send_result,      \* what analyze_replica_send_timing returned
    \* ---- a second call of the segmenter with the same arguments
    run,                      \* 1 in the first call, 2 in the second
    first_result,             \* history: how the first call ended, and its list
    \* ---- analyze_debug_zip.py, extract_slow_traces_from_debug_zip
    log_files,                \* the log files, in the order find_log_files gave them
    file_no,                  \* index of the log file the loop is at
    zpc,                      \* position in the function
    files_with_zero_traces,
    trace_count,
    per_file,                 \* history: the list each file's call returned
    \* ---- extract_commit.py, main over every trace file
    trace_files,              \* the trace files, sorted
    file_index,               \* index of the trace file the first loop is at
    ppc,                      \* position in main
    write_index,              \* index of the commit the second loop is at
    processed_count,
    query_intent_count,
    network_count,
    raft_count,
    store_send_count,
    replica_send_count,
    other_count,
    written                   \* history: category and outcome of each write

segVars  == <<lines, readable, min_threshold_ms, filter_pattern, pc, i, capturing,
              current_trace_lines, current_trace_duration, traces, cur_start, starts>>
clsVars  == <<commit_section, cpc, timing_analysis, category>>
rankVars == <<all_traces, valid_commits, rpc>>
extVars  == <<trace_lines, trace_readable, min_duration, epc, first_line,
              commit_duration, skipped_count, filtered_count>>
anaVars  == <<apc, network_result, raft_result, store_send_result,
              replica_send_result>>
rerunVars == <<run, first_result>>
zipVars  == <<log_files, file_no, zpc, files_with_zero_traces, trace_count, per_file>>
pipeVars == <<trace_files, file_index, ppc, write_index, processed_count,
              query_intent_count, network_count, raft_count, store_send_count,
              replica_send_count, other_count, written>>
vars     == <<segVars, clsVars, rankVars, extVars, anaVars, rerunVars, zipVars,
              pipeVars>>

(***************************************************************************)
(* Bounds of the model.                                                    *)
(***************************************************************************)
MaxLen == 4         \* lines in a log file
MaxSec == 4         \* lines of a commit section after the marker line
MaxRecords == 4     \* records a pipeline collects before it ranks them
MaxTraceLen == 4    \* lines in a trace file
MaxRerunLen == 3    \* lines in a log file that is segmented twice
MaxLogFiles == 3    \* log files in a debug zip
MaxFiles    == 3    \* trace files the commit pipeline finds

(***************************************************************************)
(* Helpers.                                                                *)
(***************************************************************************)
\* Python's None, where a result is absent
NoAnalysis == [none |-> TRUE]

SeqsUpTo(S, n) == UNION {[1..k -> S] : k \in 0..n}

RECURSIVE Join(_)
\* ''.join(list_of_lines): the concatenation of the lines' text
Join(ls) == IF ls = <<>> THEN <<>> ELSE Head(ls).text \o Join(Tail(ls))

\* re.search of a literal pattern (a token sequence) in a text
Search(pat, text) ==
    \E k \in 1..(Len(text) - Len(pat) + 1) : SubSeq(text, k, k + Len(pat) - 1) = pat

(***************************************************************************)
(* Log lines.  A line is described by what the three regular expressions   *)
(* of extract_slow_traces_from_file see in it, and by its text (a token    *)
(* sequence ending in the newline readlines() keeps) for the filter.       *)
(*   thr   threshold_re matches                                            *)
(*   tok   the text after "SQL txn took ": "num" (digits and at most one  *)
(*         dot, then "ms"), "dots" (only digits and dots, but no number,   *)
(*         such as 1.2.3ms), "alpha" (a token with other characters, such  *)
(*         as abcms), "none" (no token before "ms", such as 1.2s)          *)
(*   ms    the number, when tok = "num"                                    *)
(*   bnd   new_log_entry_re matches                                        *)
(***************************************************************************)
Line(thr, tok, ms, bnd, text) ==
    [thr |-> thr, tok |-> tok, ms |-> ms, bnd |-> bnd, text |-> text]

LogLines ==
    { Line(TRUE,  "num",  300, TRUE,  <<"T", "nl">>),   \* n1> I250804 ... SQL txn took 300ms, exceeding ...:
      Line(TRUE,  "num",  100, TRUE,  <<"T", "nl">>),   \* ... SQL txn took 100ms ...
      Line(TRUE,  "none", 0,   TRUE,  <<"T", "nl">>),   \* ... SQL txn took 1.2s ...
      Line(TRUE,  "alpha", 0,  TRUE,  <<"T", "nl">>),   \* ... SQL txn took abcms ...
      Line(TRUE,  "dots", 0,   TRUE,  <<"T", "nl">>),   \* ... SQL txn took 1.2.3ms ...
      Line(FALSE, "none", 0,   FALSE, <<"x", "nl">>),   \* a continuation line of a trace
      Line(FALSE, "none", 0,   FALSE, <<"A", "nl">>),   \* a continuation line the filter looks for
      Line(FALSE, "none", 0,   TRUE,  <<"B", "nl">>) }  \* the header of another log record

threshold_re(line)     == line.thr
duration_re(line)      == line.tok \in {"num", "dots"}
new_log_entry_re(line) == line.bnd

\* float(duration_match.group(1)): raises ValueError on a token that is no number
FloatRaises(line) == line.tok = "dots"
FloatOf(line)     == line.ms

(***************************************************************************)
(* The filter: None (or ""), a pattern re.compile rejects, or a pattern.   *)
(* A pattern is a literal token sequence; the second one spans two lines.  *)
(***************************************************************************)
NoFilter      == [kind |-> "none",    pat |-> <<>>]
InvalidFilter == [kind |-> "invalid", pat |-> <<>>]
FilterPatterns ==
    { NoFilter, InvalidFilter,
      [kind |-> "re", pat |-> <<"A">>],
      [kind |-> "re", pat |-> <<"nl", "A">>] }

MinThresholds == {0, 300}

\* filter_re is None when no pattern was supplied
filter_re_is_set == filter_pattern.kind = "re"

\* lines 80-98, 113-131, 137-155: the trace a flush appends, if any
Trace(duration, ls) == [duration |-> duration, lines |-> ls]

FlushPasses(duration, ls) ==
    /\ duration >= min_threshold_ms
    /\ (filter_re_is_set => Search(filter_pattern.pat, Join(ls)))

\* the list `traces` after a flush of the buffer
Flushed(ts, duration, ls) ==
    IF FlushPasses(duration, ls) THEN Append(ts, Trace(duration, ls)) ELSE ts

FlushedStarts(ss, duration, ls, s) ==
    IF FlushPasses(duration, ls) THEN Append(ss, s) ELSE ss

\* line 102, with the threshold line appended to the buffer of the trace before
\* (current_trace_lines.append(line))
NewTraceLines_KeepsBuffer(line) == Append(current_trace_lines, line)

\* line 102, with the threshold line left out of the buffer it starts
NewTraceLines_Empty(line) == <<>>

\* line 102: the buffer a threshold line starts
NewTraceLines(line) == <<line>>

\* lines 73-103 with the new duration stored (line 103) before the trace
\* before is flushed (lines 79-98)
DurationAtFlush_Replaced(new_trace_duration) == new_trace_duration

\* lines 79-98 run before line 103: the flush at a threshold line uses the
\* duration of the trace being flushed
DurationAtFlush(new_trace_duration) == current_trace_duration

\* lines 109-111 looking one line too far ahead (lines[i + 2])
EndsCapture_OffByOne(ls, k) ==
    /\ k + 2 <= Len(ls)
    /\ new_log_entry_re(ls[k + 2])
    /\ ~threshold_re(ls[k + 2])

\* lines 109-111, without the test that the next line is no threshold line
EndsCapture_AnyBoundary(ls, k) ==
    /\ k + 1 <= Len(ls)
    /\ new_log_entry_re(ls[k + 1])

\* lines 109-111: the line after index k starts another log record that is no
\* threshold line
EndsCapture(ls, k) ==
    /\ k + 1 <= Len(ls)
    /\ new_log_entry_re(ls[k + 1])
    /\ ~threshold_re(ls[k + 1])

(***************************************************************************)
(* The segmenter.                                                          *)
(***************************************************************************)
SegInit ==
    /\ lines \in SeqsUpTo(LogLines, MaxLen)
    /\ readable \in BOOLEAN
    /\ min_threshold_ms \in MinThresholds
    /\ filter_pattern \in FilterPatterns
    /\ pc = "compile"
    /\ i = 0
    /\ capturing = FALSE
    /\ current_trace_lines = <<>>
    /\ current_trace_duration = 0
    /\ traces = <<>>
    /\ cur_start = 0
    /\ starts = <<>>
    \* the other components are not running
    /\ commit_section = <<>>
    /\ cpc = "idle"
    /\ timing_analysis = NoAnalysis
    /\ category = "unset"
    /\ all_traces = <<>>
    /\ valid_commits = <<>>
    /\ rpc = "idle"
    /\ trace_lines = <<>>
    /\ trace_readable = TRUE
    /\ min_duration = 50
    /\ epc = "idle"
    /\ first_line = <<>>
    /\ commit_duration = <<>>
    /\ skipped_count = 0
    /\ filtered_count = 0
    /\ apc = "idle"
    /\ network_result = NoAnalysis
    /\ raft_result = NoAnalysis
    /\ store_send_result = NoAnalysis
    /\ replica_send_result = NoAnalysis
    /\ run = 1
    /\ first_result = <<>>
    /\ log_files = <<>>
    /\ file_no = 0
    /\ zpc = "idle"
    /\ files_with_zero_traces = 0
    /\ trace_count = 0
    /\ per_file = <<>>
    /\ trace_files = <<>>
    /\ file_index = 0
    /\ ppc = "idle"
    /\ write_index = 0
    /\ processed_count = 0
    /\ query_intent_count = 0
    /\ network_count = 0
    /\ raft_count = 0
    /\ store_send_count = 0
    /\ replica_send_count = 0
    /\ other_count = 0
    /\ written = <<>>

\* lines 52-59: an invalid pattern prints a warning and returns the empty list
SegCompileFilter ==
    /\ UNCHANGED <<clsVars, rankVars, extVars, anaVars, rerunVars, zipVars, pipeVars>>
    /\ pc = "compile"
    /\ pc' = IF filter_pattern.kind = "invalid" THEN "done" ELSE "open"
    /\ UNCHANGED <<lines, readable, min_threshold_ms, filter_pattern, i, capturing,
                   current_trace_lines, current_trace_duration, traces, cur_start, starts>>

\* lines 61-69: an unreadable file prints a warning and returns the empty list
SegReadFile ==
    /\ UNCHANGED <<clsVars, rankVars, extVars, anaVars, rerunVars, zipVars, pipeVars>>
    /\ pc = "open"
    /\ IF readable
         THEN /\ pc' = "loop"
              /\ i' = 1
         ELSE /\ pc' = "done"
              /\ i' = i
    /\ capturing' = FALSE
    /\ current_trace_duration' = 0
    /\ UNCHANGED <<lines, readable, min_threshold_ms, filter_pattern,
                   current_trace_lines, traces, cur_start, starts>>

\* lines 71-103: a threshold line
SegThresholdLine ==
    /\ UNCHANGED <<clsVars, rankVars, extVars, anaVars, rerunVars, zipVars, pipeVars>>
    /\ pc = "loop"
    /\ i <= Len(lines)
    /\ threshold_re(lines[i])
    /\ IF duration_re(lines[i]) /\ FloatRaises(lines[i])
         THEN \* ValueError leaves the function: nothing is returned
              /\ pc' = "raised"
              /\ UNCHANGED <<i, capturing, current_trace_lines, current_trace_duration,
                             traces, cur_start, starts>>
         ELSE LET new_trace_duration ==
                      IF duration_re(lines[i]) THEN FloatOf(lines[i]) ELSE 0
              IN  /\ IF capturing /\ current_trace_lines # <<>>
                       THEN /\ traces' = Flushed(traces,
                                                 DurationAtFlush(new_trace_duration),
                                                 current_trace_lines)
                            /\ starts' = FlushedStarts(starts,
                                                       DurationAtFlush(new_trace_duration),
                                                       current_trace_lines, cur_start)
                       ELSE UNCHANGED <<traces, starts>>
                  /\ capturing' = TRUE
                  /\ current_trace_lines' = NewTraceLines(lines[i])
                  /\ current_trace_duration' = new_trace_duration
                  /\ cur_start' = i
                  /\ i' = i + 1
                  /\ pc' = pc
    /\ UNCHANGED <<lines, readable, min_threshold_ms, filter_pattern>>

\* lines 105-134: another line while capturing, with one line of lookahead
SegCaptureLine ==
    /\ UNCHANGED <<clsVars, rankVars, extVars, anaVars, rerunVars, zipVars, pipeVars>>
    /\ pc = "loop"
    /\ i <= Len(lines)
    /\ ~threshold_re(lines[i])
    /\ capturing
    /\ LET buf == Append(current_trace_lines, lines[i])
       IN  IF EndsCapture(lines, i)
             THEN /\ traces' = Flushed(traces, current_trace_duration, buf)
                  /\ starts' = FlushedStarts(starts, current_trace_duration, buf, cur_start)
                  /\ capturing' = FALSE
                  /\ current_trace_lines' = <<>>
             ELSE /\ current_trace_lines' = buf
                  /\ UNCHANGED <<traces, starts, capturing>>
    /\ i' = i + 1
    /\ UNCHANGED <<lines, readable, min_threshold_ms, filter_pattern, pc,
                   current_trace_duration, cur_start>>

\* lines 70-71, 105: a line that is no threshold line while not capturing
SegSkipLine ==
    /\ UNCHANGED <<clsVars, rankVars, extVars, anaVars, rerunVars, zipVars, pipeVars>>
    /\ pc = "loop"
    /\ i <= Len(lines)
    /\ ~threshold_re(lines[i])
    /\ ~capturing
    /\ i' = i + 1
    /\ UNCHANGED <<lines, readable, min_threshold_ms, filter_pattern, pc, capturing,
                   current_trace_lines, current_trace_duration, traces, cur_start, starts>>

\* lines 136-157, without the flush of the trace the end of the input cuts off
TracesAtEnd_Forgotten == traces

\* lines 136-157: the list returned at the end of the input
TracesAtEnd ==
    IF capturing /\ current_trace_lines # <<>>
      THEN Flushed(traces, current_trace_duration, current_trace_lines)
      ELSE traces

\* lines 136-157: the end of the input
SegEndOfInput ==
    /\ UNCHANGED <<clsVars, rankVars, extVars, anaVars, rerunVars, zipVars, pipeVars>>
    /\ pc = "loop"
    /\ i > Len(lines)
    /\ traces' = TracesAtEnd
    /\ starts' = IF capturing /\ current_trace_lines # <<>>
                   THEN FlushedStarts(starts, current_trace_duration,
                                      current_trace_lines, cur_start)
                   ELSE starts
    /\ pc' = "done"
    /\ UNCHANGED <<lines, readable, min_threshold_ms, filter_pattern, i, capturing,
                   current_trace_lines, current_trace_duration, cur_start>>

SegNext ==
    \/ SegCompileFilter
    \/ SegReadFile
    \/ SegThresholdLine
    \/ SegCaptureLine
    \/ SegSkipLine
    \/ SegEndOfInput

SegSpec == SegInit /\ [][SegNext]_vars

(***************************************************************************)
(* Commit sections (extract_commit.py).  A line of a commit section is     *)
(* described by what the analyzers' patterns see in it:                    *)
(*   dual   it starts with two elapsed-time tokens, <total>ms <step>ms     *)
(*   total  the first token (cumulative elapsed time)                      *)
(*   step   the second token (time of the step)                            *)
(*   kind   the event the text names                                       *)
(*   node   the node id the text carries                                   *)
(***************************************************************************)
CLine(dual, total, step, kind, node) ==
    [dual |-> dual, total |-> total, step |-> step, kind |-> kind, node |-> node]

\* the line with "portal resolved to: <COMMIT TRANSACTION>", which starts every
\* commit section (lines 47-56): with its two timestamps, or without them
MarkerLines ==
    { CLine(TRUE,  5, 1, "commit_marker", 1),
      CLine(FALSE, 0, 0, "commit_marker", 1) }

EventLines ==
    { CLine(TRUE, 100, 45, "query_intent",        1),  \* received pre-commit QueryIntent batch response
      CLine(TRUE,  10,  1, "client",              1),  \* === operation:.../Batch node:<1> span.kind:<client>
      CLine(TRUE,  60,  1, "server",              2),  \* === operation:.../Batch node:<2> span.kind:<server>
      CLine(TRUE,  70,  1, "server",              2),
      CLine(TRUE,  72,  1, "sending",             2),  \* [n2] node sending response
      CLine(TRUE,  90,  2, "received",            1),  \* [n1,client=..] <received batch response>
      CLine(TRUE, 130, 90, "received",            1),
      CLine(TRUE, 100, 20, "submitting_proposal", 1),  \* [n1] submitting proposal to proposal buffer
      CLine(TRUE, 100, 12, "store_send",          1),  \* store_send.go:149 [n1] executing
      CLine(TRUE, 100, 12, "replica_send",        2) } \* replica_send.go:182 [n2] read-write path

\* the commit sections extract_commit_from_trace returns: the marker line and
\* the lines after it
CommitSections ==
    { <<m>> \o r : m \in MarkerLines, r \in SeqsUpTo(EventLines, MaxSec) }

\* the defaults of main's options
network_threshold      == 50
abnormal_threshold     == 5
raft_threshold         == 40
store_send_threshold   == 10
replica_send_threshold == 10

\* re.search(r'^\s*(\d+\.\d+)ms\s+(\d+\.\d+)ms', line)
DualTimestamp(line) == line.dual

\* IGNORED_LOG_PATTERNS
IgnoredKinds == {"commit_explicit", "descriptors", "received"}
Ignored(line) == line.kind \in IgnoredKinds

RaftKinds == {"submitting_proposal", "flushing_proposal", "local_proposal",
              "applying_command", "local_result"}

RECURSIVE FirstMaxFrom(_, _, _)
\* Python's max(events, key=...) and the loops `if best is None or x > best`,
\* over the keys of the elements: the index of the first greatest key; best is
\* the index found so far (0: none)
FirstMaxFrom(keys, k, best) ==
    IF k > Len(keys) THEN best
    ELSE FirstMaxFrom(keys, k + 1,
                      IF best = 0 \/ keys[k] > keys[best] THEN k ELSE best)

FirstMax(keys) == FirstMaxFrom(keys, 1, 0)

\* the step times, and the latencies, of a sequence of events
StepTimes(sq) == [k \in 1..Len(sq) |-> sq[k].step]
Latencies(sq) == [k \in 1..Len(sq) |-> sq[k].latency]

\* lines 123-180 without the fallback of lines 162-164: no result when every
\* event is ignored
analyze_commit_timing_NoFallback(section) ==
    IF section = <<>> THEN NoAnalysis
    ELSE LET timing_events   == SelectSeq(section, DualTimestamp)
             NotIgnored(e)   == ~Ignored(e)
             filtered_events == SelectSeq(timing_events, NotIgnored)
         IN  IF filtered_events = <<>> THEN NoAnalysis
             ELSE [none              |-> FALSE,
                   longest_step_time |->
                       filtered_events[FirstMax(StepTimes(filtered_events))].step,
                   longest_step_line |->
                       filtered_events[FirstMax(StepTimes(filtered_events))],
                   is_query_intent   |->
                       filtered_events[FirstMax(StepTimes(filtered_events))].kind
                           = "query_intent"]

\* lines 123-180
analyze_commit_timing(section) ==
    IF section = <<>> THEN NoAnalysis
    ELSE LET timing_events   == SelectSeq(section, DualTimestamp)
             NotIgnored(e)   == ~Ignored(e)
             filtered_events == SelectSeq(timing_events, NotIgnored)
         IN  IF timing_events = <<>> THEN NoAnalysis
             ELSE LET longest_step ==
                          IF filtered_events # <<>>
                            THEN filtered_events[FirstMax(StepTimes(filtered_events))]
                            ELSE timing_events[FirstMax(StepTimes(timing_events))]
                  IN  [none              |-> FALSE,
                       longest_step_time |-> longest_step.step,
                       longest_step_line |-> longest_step,
                       is_query_intent   |-> longest_step.kind = "query_intent"]

\* lines 212-232 and 244-264 without the break: the index of the last line
\* after a of kind `kind`, or 0
NextOfKind_Last(section, a, kind) ==
    IF \E j \in (a + 1)..Len(section) : section[j].dual /\ section[j].kind = kind
      THEN CHOOSE j \in (a + 1)..Len(section) :
               /\ section[j].dual /\ section[j].kind = kind
               /\ \A h \in (j + 1)..Len(section) :
                      ~(section[h].dual /\ section[h].kind = kind)
      ELSE 0

\* lines 212-232 and 244-264: the index of the first line after a of kind
\* `kind`, or 0
NextOfKind(section, a, kind) ==
    IF \E j \in (a + 1)..Len(section) : section[j].dual /\ section[j].kind = kind
      THEN CHOOSE j \in (a + 1)..Len(section) :
               /\ section[j].dual /\ section[j].kind = kind
               /\ \A h \in (a + 1)..(j - 1) :
                      ~(section[h].dual /\ section[h].kind = kind)
      ELSE 0

RECURSIVE PairsFrom(_, _, _, _)
\* lines 203-232 (first = "client", second = "server") and lines 235-264
\* (first = "sending", second = "received"): one pair per line of kind `first`
\* that a line of kind `second` follows
PairsFrom(section, a, first, second) ==
    IF a > Len(section) THEN <<>>
    ELSE LET j == NextOfKind(section, a, second)
             rest == PairsFrom(section, a + 1, first, second)
         IN  IF section[a].dual /\ section[a].kind = first /\ j # 0
               THEN <<[client_node |-> IF first = "client" THEN section[a].node
                                       ELSE section[j].node,
                       server_node |-> IF first = "client" THEN section[j].node
                                       ELSE section[a].node,
                       latency     |-> section[j].total - section[a].total]>> \o rest
               ELSE rest

Abs(x) == IF x < 0 THEN -x ELSE x

\* lines 183-306 with the discrepancy compared with the network threshold
analyze_network_timing_PrimaryThreshold(section, threshold, abnormal) ==
    IF section = <<>> THEN NoAnalysis
    ELSE LET client_server_pairs == PairsFrom(section, 1, "client", "server")
             server_client_pairs == PairsFrom(section, 1, "sending", "received")
             longest_client_server ==
                 IF client_server_pairs = <<>> THEN NoAnalysis
                 ELSE client_server_pairs[FirstMax(Latencies(client_server_pairs))]
             longest_server_client ==
                 IF server_client_pairs = <<>> THEN NoAnalysis
                 ELSE server_client_pairs[FirstMax(Latencies(server_client_pairs))]
             abnormal_network ==
                 IF /\ longest_client_server # NoAnalysis
                    /\ longest_server_client # NoAnalysis
                    /\ longest_client_server.client_node = longest_server_client.client_node
                    /\ longest_client_server.server_node = longest_server_client.server_node
                    /\ Abs(longest_client_server.latency - longest_server_client.latency)
                           > threshold
                   THEN [client_server_latency |-> longest_client_server.latency,
                         server_client_latency |-> longest_server_client.latency,
                         discrepancy |-> Abs(longest_client_server.latency
                                             - longest_server_client.latency),
                         server_node |-> longest_client_server.server_node,
                         client_node |-> longest_client_server.client_node]
                   ELSE NoAnalysis
         IN  [none                  |-> FALSE,
              longest_client_server |-> longest_client_server,
              longest_server_client |-> longest_server_client,
              abnormal_network      |-> abnormal_network]

\* lines 183-306
analyze_network_timing(section, threshold, abnormal) ==
    IF section = <<>> THEN NoAnalysis
    ELSE LET client_server_pairs == PairsFrom(section, 1, "client", "server")
             server_client_pairs == PairsFrom(section, 1, "sending", "received")
             longest_client_server ==
                 IF client_server_pairs = <<>> THEN NoAnalysis
                 ELSE client_server_pairs[FirstMax(Latencies(client_server_pairs))]
             longest_server_client ==
                 IF server_client_pairs = <<>> THEN NoAnalysis
                 ELSE server_client_pairs[FirstMax(Latencies(server_client_pairs))]
             abnormal_network ==
                 IF /\ longest_client_server # NoAnalysis
                    /\ longest_server_client # NoAnalysis
                    /\ longest_client_server.client_node = longest_server_client.client_node
                    /\ longest_client_server.server_node = longest_server_client.server_node
                    /\ Abs(longest_client_server.latency - longest_server_client.latency)
                           > abnormal
                   THEN [client_server_latency |-> longest_client_server.latency,
                         server_client_latency |-> longest_server_client.latency,
                         discrepancy |-> Abs(longest_client_server.latency
                                             - longest_server_client.latency),
                         server_node |-> longest_client_server.server_node,
                         client_node |-> longest_client_server.client_node]
                   ELSE NoAnalysis
         IN  [none                  |-> FALSE,
              longest_client_server |-> longest_client_server,
              longest_server_client |-> longest_server_client,
              abnormal_network      |-> abnormal_network]

RECURSIVE NodesOf(_, _)
\* the keys of raft_by_node, in the order the dict received them
NodesOf(ops, seen) ==
    IF ops = <<>> THEN <<>>
    ELSE IF Head(ops).node \in seen THEN NodesOf(Tail(ops), seen)
    ELSE <<Head(ops).node>> \o NodesOf(Tail(ops), seen \cup {Head(ops).node})

RECURSIVE SumSteps_AllNodes(_, _)
\* line 429 adding every operation's duration to every node's total
SumSteps_AllNodes(ops, node) ==
    IF ops = <<>> THEN 0
    ELSE Head(ops).step + SumSteps_AllNodes(Tail(ops), node)

RECURSIVE SumSteps(_, _)
\* lines 428-429: total_duration of a node
SumSteps(ops, node) ==
    IF ops = <<>> THEN 0
    ELSE (IF Head(ops).node = node THEN Head(ops).step ELSE 0) + SumSteps(Tail(ops), node)

\* lines 309-446
analyze_raft_timing(section, threshold) ==
    IF section = <<>> THEN NoAnalysis
    ELSE LET IsRaft(l) == l.kind \in RaftKinds /\ l.dual
             raft_operations == SelectSeq(section, IsRaft)
             nodes == NodesOf(raft_operations, {})
             raft_by_node ==
                 [k \in 1..Len(nodes) |->
                     [node |-> nodes[k],
                      total_duration |-> SumSteps(raft_operations, nodes[k])]]
             Over(d) == d.total_duration > threshold
             over == SelectSeq(raft_by_node, Over)
         IN  [none         |-> FALSE,
              longest_raft |-> IF over = <<>> THEN NoAnalysis
                               ELSE over[FirstMax([k \in 1..Len(over) |->
                                                      over[k].total_duration])]]

RECURSIVE SumOfSteps(_)
SumOfSteps(ops) == IF ops = <<>> THEN 0 ELSE Head(ops).step + SumOfSteps(Tail(ops))

\* lines 485-490 with the durations of the occurrences added up, as the Raft
\* analyzer does
LongestOccurrence_Summed(section, kind, threshold) ==
    LET IsOp(l) == l.kind = kind /\ l.dual
        ops     == SelectSeq(section, IsOp)
    IN  IF ops = <<>> \/ SumOfSteps(ops) <= threshold THEN NoAnalysis
        ELSE [duration |-> SumOfSteps(ops),
              node     |-> ops[FirstMax(StepTimes(ops))].node]

\* lines 449-499 (kind = "store_send") and lines 502-552 (kind = "replica_send"):
\* the occurrence the analyzer reports, or None
LongestOccurrence(section, kind, threshold) ==
    LET IsOp(l) == l.kind = kind /\ l.dual
        Over(l) == l.step > threshold
        over    == SelectSeq(SelectSeq(section, IsOp), Over)
    IN  IF over = <<>> THEN NoAnalysis
        ELSE [duration |-> over[FirstMax(StepTimes(over))].step,
              node     |-> over[FirstMax(StepTimes(over))].node]

\* lines 449-499
analyze_store_send_timing(section, threshold) ==
    IF section = <<>> THEN NoAnalysis
    ELSE [none |-> FALSE,
          longest_store_send |-> LongestOccurrence(section, "store_send", threshold)]

\* lines 502-552
analyze_replica_send_timing(section, threshold) ==
    IF section = <<>> THEN NoAnalysis
    ELSE [none |-> FALSE,
          longest_replica_send |-> LongestOccurrence(section, "replica_send", threshold)]

\* lines 700-712: the network category of a commit, or "none"
NetworkCategory_AbnormalFirst(section) ==
    LET network_analysis ==
            analyze_network_timing(section, network_threshold, abnormal_threshold)
    IN  IF /\ network_analysis # NoAnalysis
           /\ network_analysis.abnormal_network # NoAnalysis
          THEN "network_abnormal"
        ELSE IF /\ network_analysis # NoAnalysis
                /\ network_analysis.longest_client_server # NoAnalysis
                /\ network_analysis.longest_client_server.latency > network_threshold
          THEN "network"
        ELSE IF /\ network_analysis # NoAnalysis
                /\ network_analysis.longest_server_client # NoAnalysis
                /\ network_analysis.longest_server_client.latency > network_threshold
          THEN "network_server_client"
        ELSE "none"

NetworkCategory(section) ==
    LET network_analysis ==
            analyze_network_timing(section, network_threshold, abnormal_threshold)
    IN  IF /\ network_analysis # NoAnalysis
           /\ network_analysis.longest_client_server # NoAnalysis
           /\ network_analysis.longest_client_server.latency > network_threshold
          THEN "network"
        ELSE IF /\ network_analysis # NoAnalysis
                /\ network_analysis.longest_server_client # NoAnalysis
                /\ network_analysis.longest_server_client.latency > network_threshold
          THEN "network_server_client"
        ELSE IF /\ network_analysis # NoAnalysis
                /\ network_analysis.abnormal_network # NoAnalysis
          THEN "network_abnormal"
        ELSE "none"

\* lines 714-732: the category of a commit with no network category
ConsensusOrStorageCategory(section) ==
    LET raft_analysis == analyze_raft_timing(section, raft_threshold)
        store_send_analysis ==
            analyze_store_send_timing(section, store_send_threshold)
        replica_send_analysis ==
            analyze_replica_send_timing(section, replica_send_threshold)
    IN  IF raft_analysis # NoAnalysis /\ raft_analysis.longest_raft # NoAnalysis
          THEN "raft"
        ELSE IF /\ store_send_analysis # NoAnalysis
                /\ store_send_analysis.longest_store_send # NoAnalysis
          THEN "store_send"
        ELSE IF /\ replica_send_analysis # NoAnalysis
                /\ replica_send_analysis.longest_replica_send # NoAnalysis
          THEN "replica_send"
        ELSE "other"

\* lines 694-732, with the network signals looked at before the QueryIntent hint
Categorize_NetworkFirst(section, timing) ==
    IF NetworkCategory(section) # "none" THEN NetworkCategory(section)
    ELSE IF timing # NoAnalysis /\ timing.is_query_intent THEN "query_intent"
    ELSE ConsensusOrStorageCategory(section)

\* lines 694-732: the decision chain of main
Categorize(section, timing) ==
    IF timing # NoAnalysis /\ timing.is_query_intent THEN "query_intent"
    ELSE IF NetworkCategory(section) # "none" THEN NetworkCategory(section)
    ELSE ConsensusOrStorageCategory(section)

(***************************************************************************)
(* The classification of one commit section.                               *)
(***************************************************************************)
ClsInit ==
    /\ commit_section = <<>>
    /\ cpc = "extract"
    /\ timing_analysis = NoAnalysis
    /\ category = "unset"
    \* the other components are not running
    /\ lines = <<>>
    /\ readable = TRUE
    /\ min_threshold_ms = 0
    /\ filter_pattern = NoFilter
    /\ pc = "idle"
    /\ i = 0
    /\ capturing = FALSE
    /\ current_trace_lines = <<>>
    /\ current_trace_duration = 0
    /\ traces = <<>>
    /\ cur_start = 0
    /\ starts = <<>>
    /\ all_traces = <<>>
    /\ valid_commits = <<>>
    /\ rpc = "idle"
    /\ trace_lines = <<>>
    /\ trace_readable = TRUE
    /\ min_duration = 50
    /\ epc = "idle"
    /\ first_line = <<>>
    /\ commit_duration = <<>>
    /\ skipped_count = 0
    /\ filtered_count = 0
    /\ apc = "idle"
    /\ network_result = NoAnalysis
    /\ raft_result = NoAnalysis
    /\ store_send_result = NoAnalysis
    /\ replica_send_result = NoAnalysis
    /\ run = 1
    /\ first_result = <<>>
    /\ log_files = <<>>
    /\ file_no = 0
    /\ zpc = "idle"
    /\ files_with_zero_traces = 0
    /\ trace_count = 0
    /\ per_file = <<>>
    /\ trace_files = <<>>
    /\ file_index = 0
    /\ ppc = "idle"
    /\ write_index = 0
    /\ processed_count = 0
    /\ query_intent_count = 0
    /\ network_count = 0
    /\ raft_count = 0
    /\ store_send_count = 0
    /\ replica_send_count = 0
    /\ other_count = 0
    /\ written = <<>>

\* lines 631-659: the commit section of a trace is extracted and its timing
\* analyzed
ClsAnalyze ==
    /\ UNCHANGED <<segVars, rankVars, extVars, anaVars, rerunVars, zipVars, pipeVars>>
    /\ cpc = "extract"
    /\ \E section \in CommitSections :
          /\ commit_section' = section
          /\ timing_analysis' = analyze_commit_timing(section)
    /\ cpc' = "classify"
    /\ UNCHANGED category

\* lines 687-732: the commit is given its category
ClsClassify ==
    /\ UNCHANGED <<segVars, rankVars, extVars, anaVars, rerunVars, zipVars, pipeVars>>
    /\ cpc = "classify"
    /\ category' = Categorize(commit_section, timing_analysis)
    /\ cpc' = "classified"
    /\ UNCHANGED <<commit_section, timing_analysis>>

ClsNext ==
    \/ ClsAnalyze
    \/ ClsClassify

ClsSpec == ClsInit /\ [][ClsNext]_vars

(***************************************************************************)
(* Ranking.  analyze_debug_zip.py collects the traces of every log file in *)
(* all_traces and sorts them by duration; extract_commit.py collects the   *)
(* commits that passed the duration filter in valid_commits and sorts them *)
(* by commit duration.  A record's `found` is its place in the order of    *)
(* discovery; it stands for the record's lines and file.                   *)
(***************************************************************************)
\* Python's None for a duration, and a duration that is a number
None    == <<>>
Some(d) == <<d>>

TraceDurations  == {95, 120, 150}
CommitDurations == {None, Some(0), Some(95), Some(120)}

\* analyze_debug_zip.py line 192: key=lambda x: x['duration'], for every trace
TraceKeys(sq) == [k \in 1..Len(sq) |-> sq[k].duration]

\* extract_commit.py line 662: key=lambda x: x['commit_duration'] or 0, for
\* every commit
CommitKeys(sq) ==
    [k \in 1..Len(sq) |->
        IF sq[k].commit_duration = None THEN 0 ELSE sq[k].commit_duration[1]]

RECURSIVE InsertDesc(_, _)
\* the pair x = <<key, record>> put into the descending sequence of pairs after
\* every pair whose key is greater than or equal to its own
InsertDesc(pairs, x) ==
    IF pairs = <<>> THEN <<x>>
    ELSE IF Head(pairs)[1] >= x[1] THEN <<Head(pairs)>> \o InsertDesc(Tail(pairs), x)
    ELSE <<x>> \o pairs

RECURSIVE InsertDescBeforeEqual(_, _)
\* the pair x put into the descending sequence of pairs before the pairs with
\* its key
InsertDescBeforeEqual(pairs, x) ==
    IF pairs = <<>> THEN <<x>>
    ELSE IF Head(pairs)[1] > x[1]
      THEN <<Head(pairs)>> \o InsertDescBeforeEqual(Tail(pairs), x)
    ELSE <<x>> \o pairs

RECURSIVE SortReversedFrom(_, _, _, _)
SortReversedFrom(sq, keys, k, acc) ==
    IF k > Len(sq) THEN [j \in 1..Len(acc) |-> acc[j][2]]
    ELSE SortReversedFrom(sq, keys, k + 1, InsertDescBeforeEqual(acc, <<keys[k], sq[k]>>))

\* a sort that puts the greatest key first and reverses the order of equal keys
\* (what reversing an ascending sort gives)
SortDescending_Reversed(sq, keys) == SortReversedFrom(sq, keys, 1, <<>>)

RECURSIVE SortFrom(_, _, _, _)
SortFrom(sq, keys, k, acc) ==
    IF k > Len(sq) THEN [j \in 1..Len(acc) |-> acc[j][2]]
    ELSE SortFrom(sq, keys, k + 1, InsertDesc(acc, <<keys[k], sq[k]>>))

\* list.sort(key=..., reverse=True), keys being the key of every element: the
\* greatest key first; Python's sort is stable, and reverse=True keeps the
\* original order of equal keys
SortDescending(sq, keys) == SortFrom(sq, keys, 1, <<>>)

RankInit ==
    /\ all_traces = <<>>
    /\ valid_commits = <<>>
    /\ rpc \in {"collect_traces", "collect_commits"}
    \* the other components are not running
    /\ lines = <<>>
    /\ readable = TRUE
    /\ min_threshold_ms = 0
    /\ filter_pattern = NoFilter
    /\ pc = "idle"
    /\ i = 0
    /\ capturing = FALSE
    /\ current_trace_lines = <<>>
    /\ current_trace_duration = 0
    /\ traces = <<>>
    /\ cur_start = 0
    /\ starts = <<>>
    /\ commit_section = <<>>
    /\ cpc = "idle"
    /\ timing_analysis = NoAnalysis
    /\ category = "unset"
    /\ trace_lines = <<>>
    /\ trace_readable = TRUE
    /\ min_duration = 50
    /\ epc = "idle"
    /\ first_line = <<>>
    /\ commit_duration = <<>>
    /\ skipped_count = 0
    /\ filtered_count = 0
    /\ apc = "idle"
    /\ network_result = NoAnalysis
    /\ raft_result = NoAnalysis
    /\ store_send_result = NoAnalysis
    /\ replica_send_result = NoAnalysis
    /\ run = 1
    /\ first_result = <<>>
    /\ log_files = <<>>
    /\ file_no = 0
    /\ zpc = "idle"
    /\ files_with_zero_traces = 0
    /\ trace_count = 0
    /\ per_file = <<>>
    /\ trace_files = <<>>
    /\ file_index = 0
    /\ ppc = "idle"
    /\ write_index = 0
    /\ processed_count = 0
    /\ query_intent_count = 0
    /\ network_count = 0
    /\ raft_count = 0
    /\ store_send_count = 0
    /\ replica_send_count = 0
    /\ other_count = 0
    /\ written = <<>>

\* analyze_debug_zip.py lines 183-189: the traces of a log file join all_traces
RankCollectTrace ==
    /\ UNCHANGED <<segVars, clsVars, extVars, anaVars, rerunVars, zipVars, pipeVars>>
    /\ rpc = "collect_traces"
    /\ Len(all_traces) < MaxRecords
    /\ \E d \in TraceDurations :
          all_traces' = Append(all_traces,
                               [duration |-> d, found |-> Len(all_traces) + 1])
    /\ UNCHANGED <<valid_commits, rpc>>

\* analyze_debug_zip.py lines 191-192
RankSortTraces ==
    /\ UNCHANGED <<segVars, clsVars, extVars, anaVars, rerunVars, zipVars, pipeVars>>
    /\ rpc = "collect_traces"
    /\ all_traces' = SortDescending(all_traces, TraceKeys(all_traces))
    /\ rpc' = "ranked_traces"
    /\ UNCHANGED valid_commits

\* extract_commit.py lines 651-659: a commit that passed the filter joins
\* valid_commits
RankCollectCommit ==
    /\ UNCHANGED <<segVars, clsVars, extVars, anaVars, rerunVars, zipVars, pipeVars>>
    /\ rpc = "collect_commits"
    /\ Len(valid_commits) < MaxRecords
    /\ \E d \in CommitDurations :
          valid_commits' = Append(valid_commits,
                                  [commit_duration |-> d,
                                   found |-> Len(valid_commits) + 1])
    /\ UNCHANGED <<all_traces, rpc>>

\* extract_commit.py lines 661-662
RankSortCommits ==
    /\ UNCHANGED <<segVars, clsVars, extVars, anaVars, rerunVars, zipVars, pipeVars>>
    /\ rpc = "collect_commits"
    /\ valid_commits' = SortDescending(valid_commits, CommitKeys(valid_commits))
    /\ rpc' = "ranked_commits"
    /\ UNCHANGED all_traces

RankNext ==
    \/ RankCollectTrace
    \/ RankSortTraces
    \/ RankCollectCommit
    \/ RankSortCommits

RankSpec == RankInit /\ [][RankNext]_vars

(***************************************************************************)
(* The commit pipeline (extract_commit.py): main's loop body for one trace *)
(* file.  A line of a trace file is a CLine; kind "header" is the trace's  *)
(* first line, kind "elapsed_only" a line that starts with one elapsed-    *)
(* time token (<total>ms) and has no second one.  An absent value (None)   *)
(* is <<>>; a commit section that was found has at least its marker line.  *)
(***************************************************************************)
TraceFileLines ==
    { CLine(FALSE,   0,  0, "header",        1),   \* ... SQL txn took 300ms, exceeding threshold ...
      CLine(FALSE,   0,  0, "commit_marker", 1),   \* ... portal resolved to: <COMMIT TRANSACTION>
      CLine(TRUE,  100,  1, "commit_marker", 1),   \*  100.000ms  1.000ms  ... portal resolved to: ...
      CLine(TRUE,   90,  2, "received",      1),
      CLine(TRUE,  130, 90, "received",      1),
      CLine(TRUE,  100, 45, "query_intent",  1),
      CLine(FALSE, 260,  0, "elapsed_only",  1) }  \*  260.000ms  some text

\* the defaults of --min-duration and --max-duration
min_duration_default == 50
max_duration         == 150

\* the values of --min-duration looked at
MinDurations == {min_duration_default, -40}

\* line 48: "portal resolved to: <COMMIT TRANSACTION>" in line
IsCommitMarker(line) == line.kind = "commit_marker"

\* re.search(r'^\s*(\d+\.\d+)ms', line), lines 84 and 97
ElapsedToken(line) == line.dual \/ line.kind = "elapsed_only"

\* lines 45-50 with the scan keeping the last marker line instead of the first
CommitStart_Last(ls) ==
    IF \E k \in 1..Len(ls) : IsCommitMarker(ls[k])
      THEN CHOOSE k \in 1..Len(ls) :
               /\ IsCommitMarker(ls[k])
               /\ \A h \in (k + 1)..Len(ls) : ~IsCommitMarker(ls[h])
      ELSE 0

\* lines 45-50: commit_start_idx (1-based), 0 for None
CommitStart(ls) ==
    IF \E k \in 1..Len(ls) : IsCommitMarker(ls[k])
      THEN CHOOSE k \in 1..Len(ls) :
               /\ IsCommitMarker(ls[k])
               /\ \A h \in 1..(k - 1) : ~IsCommitMarker(ls[h])
      ELSE 0

\* the index of the first line of the section with an elapsed-time token
\* (lines 81-89), and of the last one (lines 95-102); 0 when there is none
FirstElapsed(section) ==
    IF \E k \in 1..Len(section) : ElapsedToken(section[k])
      THEN CHOOSE k \in 1..Len(section) :
               /\ ElapsedToken(section[k])
               /\ \A h \in 1..(k - 1) : ~ElapsedToken(section[h])
      ELSE 0

LastElapsed(section) ==
    IF \E k \in 1..Len(section) : ElapsedToken(section[k])
      THEN CHOOSE k \in 1..Len(section) :
               /\ ElapsedToken(section[k])
               /\ \A h \in (k + 1)..Len(section) : ~ElapsedToken(section[h])
      ELSE 0

\* lines 68-112 with a negative difference replaced by 0
calculate_commit_duration_Clamped(section) ==
    IF section = <<>> \/ FirstElapsed(section) = 0 THEN None
    ELSE LET d == section[LastElapsed(section)].total
                  - section[FirstElapsed(section)].total
         IN  Some(IF d < 0 THEN 0 ELSE d)

\* lines 68-112
calculate_commit_duration(section) ==
    IF section = <<>> THEN None
    ELSE IF FirstElapsed(section) = 0 THEN None
    ELSE IF LastElapsed(section) = 0 THEN None
    ELSE Some(section[LastElapsed(section)].total
              - section[FirstElapsed(section)].total)

\* lines 25-65: (first_line, commit_section, commit_duration), or three Nones
extract_commit_from_trace(ls, ok) ==
    IF ~ok \/ ls = <<>> \/ CommitStart(ls) = 0
      THEN [first_line |-> None, commit_section |-> None, commit_duration |-> None]
      ELSE [first_line      |-> Some(ls[1]),
            commit_section  |-> SubSeq(ls, CommitStart(ls), Len(ls)),
            commit_duration |->
                calculate_commit_duration(SubSeq(ls, CommitStart(ls), Len(ls)))]

\* lines 639-646 with a test that also turns away a duration that is not positive
DurationFiltered_NonPositive(d, lo, hi) ==
    /\ d # None
    /\ (d[1] <= 0 \/ d[1] < lo \/ d[1] > hi)

\* lines 639-646: the commit is left out for its duration
DurationFiltered(d, lo, hi) ==
    /\ d # None
    /\ (d[1] < lo \/ d[1] > hi)

ExtInit ==
    /\ trace_lines \in SeqsUpTo(TraceFileLines, MaxTraceLen)
    /\ trace_readable \in BOOLEAN
    /\ min_duration \in MinDurations
    /\ epc = "extract"
    /\ first_line = None
    /\ commit_duration = None
    /\ skipped_count = 0
    /\ filtered_count = 0
    /\ commit_section = <<>>
    /\ timing_analysis = NoAnalysis
    /\ valid_commits = <<>>
    \* the other components are not running
    /\ lines = <<>>
    /\ readable = TRUE
    /\ min_threshold_ms = 0
    /\ filter_pattern = NoFilter
    /\ pc = "idle"
    /\ i = 0
    /\ capturing = FALSE
    /\ current_trace_lines = <<>>
    /\ current_trace_duration = 0
    /\ traces = <<>>
    /\ cur_start = 0
    /\ starts = <<>>
    /\ cpc = "idle"
    /\ category = "unset"
    /\ all_traces = <<>>
    /\ rpc = "idle"
    /\ apc = "idle"
    /\ network_result = NoAnalysis
    /\ raft_result = NoAnalysis
    /\ store_send_result = NoAnalysis
    /\ replica_send_result = NoAnalysis
    /\ run = 1
    /\ first_result = <<>>
    /\ log_files = <<>>
    /\ file_no = 0
    /\ zpc = "idle"
    /\ files_with_zero_traces = 0
    /\ trace_count = 0
    /\ per_file = <<>>
    /\ trace_files = <<>>
    /\ file_index = 0
    /\ ppc = "idle"
    /\ write_index = 0
    /\ processed_count = 0
    /\ query_intent_count = 0
    /\ network_count = 0
    /\ raft_count = 0
    /\ store_send_count = 0
    /\ replica_send_count = 0
    /\ other_count = 0
    /\ written = <<>>

\* lines 631-637: the commit section is extracted; a trace without one is
\* counted as skipped and left out
ExtExtract ==
    /\ UNCHANGED <<segVars, anaVars, rerunVars, zipVars, pipeVars>>
    /\ epc = "extract"
    /\ LET r == extract_commit_from_trace(trace_lines, trace_readable)
       IN  /\ first_line' = r.first_line
           /\ commit_section' = r.commit_section
           /\ commit_duration' = r.commit_duration
           /\ IF r.first_line = None \/ r.commit_section = None
                THEN /\ skipped_count' = skipped_count + 1
                     /\ epc' = "skipped"
                ELSE /\ skipped_count' = skipped_count
                     /\ epc' = "filter"
    /\ UNCHANGED <<trace_lines, trace_readable, min_duration, filtered_count,
                   timing_analysis, valid_commits, cpc, category, all_traces, rpc>>

\* lines 639-646: the duration filter
ExtFilter ==
    /\ UNCHANGED <<segVars, anaVars, rerunVars, zipVars, pipeVars>>
    /\ epc = "filter"
    /\ IF DurationFiltered(commit_duration, min_duration, max_duration)
         THEN /\ filtered_count' = filtered_count + 1
              /\ epc' = "filtered"
         ELSE /\ filtered_count' = filtered_count
              /\ epc' = "analyze"
    /\ UNCHANGED <<trace_lines, trace_readable, min_duration, first_line,
                   commit_duration, skipped_count, commit_section,
                   timing_analysis, valid_commits, cpc, category, all_traces, rpc>>

\* lines 648-659: the timing is analyzed and the commit joins valid_commits,
\* the list main sorts, classifies and writes
ExtCollect ==
    /\ UNCHANGED <<segVars, anaVars, rerunVars, zipVars, pipeVars>>
    /\ epc = "analyze"
    /\ timing_analysis' = analyze_commit_timing(commit_section)
    /\ valid_commits' =
           Append(valid_commits,
                  [first_line      |-> first_line,
                   commit_section  |-> commit_section,
                   commit_duration |-> commit_duration,
                   timing_analysis |-> analyze_commit_timing(commit_section)])
    /\ epc' = "collected"
    /\ UNCHANGED <<trace_lines, trace_readable, min_duration, first_line,
                   commit_duration, skipped_count, filtered_count, commit_section,
                   cpc, category, all_traces, rpc>>

ExtNext ==
    \/ ExtExtract
    \/ ExtFilter
    \/ ExtCollect

ExtSpec == ExtInit /\ [][ExtNext]_vars

(***************************************************************************)
(* The analyzers main calls on a commit section (lines 700-732), each on   *)
(* its own: the section is the marker line and up to MaxSec lines, drawn   *)
(* from the lines the analyzer looks for and one line it does not.         *)
(***************************************************************************)
NetworkLines ==
    { CLine(TRUE,  10,  1, "client",              1),
      CLine(TRUE,  65,  1, "client",              3),
      CLine(TRUE,  60,  1, "server",              2),
      CLine(TRUE,  70,  1, "server",              4),
      CLine(TRUE,  72,  1, "sending",             2),
      CLine(TRUE,  90,  2, "received",            1),
      CLine(TRUE, 127, 90, "received",            1),
      CLine(TRUE, 100, 20, "submitting_proposal", 1) }

RaftLines ==
    { CLine(TRUE, 100, 20, "submitting_proposal", 1),
      CLine(TRUE, 100, 25, "flushing_proposal",   1),  \* [n1] flushing proposal to Raft
      CLine(TRUE, 100, 30, "local_proposal",      2),  \* === operation:local proposal ... node:<2>
      CLine(TRUE, 100, 45, "applying_command",    2),  \* [n2] applying command
      CLine(TRUE, 100,  5, "local_result",        1),  \* [n1] LocalResult
      CLine(TRUE, 100, 90, "store_send",          1) }

SendLines ==
    { CLine(TRUE, 100, 12, "store_send",          1),
      CLine(TRUE, 100,  8, "store_send",          2),
      CLine(TRUE, 100, 30, "store_send",          2),
      CLine(TRUE, 100, 12, "replica_send",        2),
      CLine(TRUE, 100, 10, "replica_send",        1),
      CLine(TRUE, 100, 90, "submitting_proposal", 1) }

\* the marker line that starts the section
AnaMarker == CLine(TRUE, 5, 1, "commit_marker", 1)

\* the values of --network-threshold looked at
NetworkThresholds == {network_threshold, 0}

AnaInit ==
    /\ apc = "start"
    /\ commit_section = <<>>
    /\ network_result = NoAnalysis
    /\ raft_result = NoAnalysis
    /\ store_send_result = NoAnalysis
    /\ replica_send_result = NoAnalysis
    \* the other components are not running
    /\ lines = <<>>
    /\ readable = TRUE
    /\ min_threshold_ms = 0
    /\ filter_pattern = NoFilter
    /\ pc = "idle"
    /\ i = 0
    /\ capturing = FALSE
    /\ current_trace_lines = <<>>
    /\ current_trace_duration = 0
    /\ traces = <<>>
    /\ cur_start = 0
    /\ starts = <<>>
    /\ cpc = "idle"
    /\ timing_analysis = NoAnalysis
    /\ category = "unset"
    /\ all_traces = <<>>
    /\ valid_commits = <<>>
    /\ rpc = "idle"
    /\ trace_lines = <<>>
    /\ trace_readable = TRUE
    /\ min_duration = 50
    /\ epc = "idle"
    /\ first_line = <<>>
    /\ commit_duration = <<>>
    /\ skipped_count = 0
    /\ filtered_count = 0
    /\ run = 1
    /\ first_result = <<>>
    /\ log_files = <<>>
    /\ file_no = 0
    /\ zpc = "idle"
    /\ files_with_zero_traces = 0
    /\ trace_count = 0
    /\ per_file = <<>>
    /\ trace_files = <<>>
    /\ file_index = 0
    /\ ppc = "idle"
    /\ write_index = 0
    /\ processed_count = 0
    /\ query_intent_count = 0
    /\ network_count = 0
    /\ raft_count = 0
    /\ store_send_count = 0
    /\ replica_send_count = 0
    /\ other_count = 0
    /\ written = <<>>

\* line 701: network_analysis = analyze_network_timing(commit_section, network_threshold)
AnaNetwork ==
    /\ UNCHANGED <<segVars, rankVars, extVars, rerunVars, zipVars, pipeVars>>
    /\ apc = "start"
    /\ \E r \in SeqsUpTo(NetworkLines, MaxSec), threshold \in NetworkThresholds :
          /\ commit_section' = <<AnaMarker>> \o r
          /\ network_result' =
                 analyze_network_timing(<<AnaMarker>> \o r, threshold, abnormal_threshold)
    /\ apc' = "network"
    /\ UNCHANGED <<cpc, timing_analysis, category, raft_result, store_send_result,
                   replica_send_result>>

\* line 715: raft_analysis = analyze_raft_timing(commit_section, raft_threshold)
AnaRaft ==
    /\ UNCHANGED <<segVars, rankVars, extVars, rerunVars, zipVars, pipeVars>>
    /\ apc = "start"
    /\ \E r \in SeqsUpTo(RaftLines, MaxSec) :
          /\ commit_section' = <<AnaMarker>> \o r
          /\ raft_result' = analyze_raft_timing(<<AnaMarker>> \o r, raft_threshold)
    /\ apc' = "raft"
    /\ UNCHANGED <<cpc, timing_analysis, category, network_result, store_send_result,
                   replica_send_result>>

\* line 721: store_send_analysis = analyze_store_send_timing(commit_section, store_send_threshold)
AnaStoreSend ==
    /\ UNCHANGED <<segVars, rankVars, extVars, rerunVars, zipVars, pipeVars>>
    /\ apc = "start"
    /\ \E r \in SeqsUpTo(SendLines, MaxSec) :
          /\ commit_section' = <<AnaMarker>> \o r
          /\ store_send_result' =
                 analyze_store_send_timing(<<AnaMarker>> \o r, store_send_threshold)
    /\ apc' = "store_send"
    /\ UNCHANGED <<cpc, timing_analysis, category, network_result, raft_result,
                   replica_send_result>>

\* line 727: replica_send_analysis = analyze_replica_send_timing(commit_section, replica_send_threshold)
AnaReplicaSend ==
    /\ UNCHANGED <<segVars, rankVars, extVars, rerunVars, zipVars, pipeVars>>
    /\ apc = "start"
    /\ \E r \in SeqsUpTo(SendLines, MaxSec) :
          /\ commit_section' = <<AnaMarker>> \o r
          /\ replica_send_result' =
                 analyze_replica_send_timing(<<AnaMarker>> \o r, replica_send_threshold)
    /\ apc' = "replica_send"
    /\ UNCHANGED <<cpc, timing_analysis, category, network_result, raft_result,
                   store_send_result>>

AnaNext ==
    \/ AnaNetwork
    \/ AnaRaft
    \/ AnaStoreSend
    \/ AnaReplicaSend

AnaSpec == AnaInit /\ [][AnaNext]_vars

(***************************************************************************)
(* The segmenter called twice on the same file with the same arguments.    *)
(***************************************************************************)
\* line 48 with the list of an earlier call still in it (a list that outlives
\* the call, such as a module-level list or a mutable default argument)
FreshTraces_Kept == traces

\* line 48: traces = []
FreshTraces == <<>>

RerunInit ==
    /\ lines \in SeqsUpTo(LogLines, MaxRerunLen)
    /\ readable \in BOOLEAN
    /\ min_threshold_ms \in MinThresholds
    /\ filter_pattern \in FilterPatterns
    /\ pc = "compile"
    /\ i = 0
    /\ capturing = FALSE
    /\ current_trace_lines = <<>>
    /\ current_trace_duration = 0
    /\ traces = <<>>
    /\ cur_start = 0
    /\ starts = <<>>
    /\ run = 1
    /\ first_result = <<>>
    \* the other components are not running
    /\ commit_section = <<>>
    /\ cpc = "idle"
    /\ timing_analysis = NoAnalysis
    /\ category = "unset"
    /\ all_traces = <<>>
    /\ valid_commits = <<>>
    /\ rpc = "idle"
    /\ trace_lines = <<>>
    /\ trace_readable = TRUE
    /\ min_duration = 50
    /\ epc = "idle"
    /\ first_line = <<>>
    /\ commit_duration = <<>>
    /\ skipped_count = 0
    /\ filtered_count = 0
    /\ apc = "idle"
    /\ network_result = NoAnalysis
    /\ raft_result = NoAnalysis
    /\ store_send_result = NoAnalysis
    /\ replica_send_result = NoAnalysis
    /\ log_files = <<>>
    /\ file_no = 0
    /\ zpc = "idle"
    /\ files_with_zero_traces = 0
    /\ trace_count = 0
    /\ per_file = <<>>
    /\ trace_files = <<>>
    /\ file_index = 0
    /\ ppc = "idle"
    /\ write_index = 0
    /\ processed_count = 0
    /\ query_intent_count = 0
    /\ network_count = 0
    /\ raft_count = 0
    /\ store_send_count = 0
    /\ replica_send_count = 0
    /\ other_count = 0
    /\ written = <<>>

\* what a call that has ended gave its caller: the list it returned, or the
\* ValueError it raised
SegResult ==
    [outcome |-> pc, traces |-> IF pc = "done" THEN traces ELSE <<>>]

\* the function is called again with the same arguments on the same file:
\* lines 48-50 set up its local variables
SegRerun ==
    /\ UNCHANGED <<clsVars, rankVars, extVars, anaVars, zipVars, pipeVars>>
    /\ pc \in {"done", "raised"}
    /\ run = 1
    /\ first_result' = SegResult
    /\ run' = 2
    /\ pc' = "compile"
    /\ traces' = FreshTraces
    /\ current_trace_lines' = <<>>
    /\ current_trace_duration' = 0
    /\ capturing' = FALSE
    /\ i' = 0
    /\ cur_start' = 0
    /\ starts' = <<>>
    /\ UNCHANGED <<lines, readable, min_threshold_ms, filter_pattern>>

RerunNext ==
    \/ SegCompileFilter
    \/ SegReadFile
    \/ SegThresholdLine
    \/ SegCaptureLine
    \/ SegSkipLine
    \/ SegEndOfInput
    \/ SegRerun

RerunSpec == RerunInit /\ [][RerunNext]_vars

(***************************************************************************)
(* main of extract_commit.py over all the trace files of the directory.    *)
(***************************************************************************)
\* the files glob("trace_*.txt") finds: name_ok says whether
\* re.search(r'trace_(\d+)\.txt', name) matches
PipeTraceFiles ==
    LET h    == CLine(FALSE,   0,  0, "header",              1)
        m0   == CLine(FALSE,   0,  0, "commit_marker",       1)
        m100 == CLine(TRUE,  100,  1, "commit_marker",       1)
        q150 == CLine(TRUE,  150, 45, "query_intent",        1)
        s110 == CLine(TRUE,  110,  1, "sending",             2)
        r180 == CLine(TRUE,  180,  2, "received",            1)
        e260 == CLine(FALSE, 260,  0, "elapsed_only",        1)
    IN  { [name_ok |-> TRUE,  readable |-> TRUE,  lines |-> <<h, m0>>],          \* duration None
          [name_ok |-> TRUE,  readable |-> TRUE,  lines |-> <<h, m100>>],        \* 0
          [name_ok |-> TRUE,  readable |-> TRUE,  lines |-> <<h, m100, q150>>],  \* 50
          [name_ok |-> TRUE,  readable |-> TRUE,  lines |-> <<h, m100, s110, r180>>],  \* 80
          [name_ok |-> TRUE,  readable |-> TRUE,  lines |-> <<h, m100, e260>>],  \* 160
          [name_ok |-> TRUE,  readable |-> TRUE,  lines |-> <<h, r180>>],        \* no marker
          [name_ok |-> TRUE,  readable |-> FALSE, lines |-> <<h, m100>>],        \* open() fails
          [name_ok |-> FALSE, readable |-> TRUE,  lines |-> <<h, m0>>] }         \* trace_x.txt

\* lines 633-646 with a commit without a duration counted as filtered
PipeOutcome_NullFiltered(r, lo, hi) ==
    IF r.first_line = None \/ r.commit_section = None THEN "skipped"
    ELSE IF r.commit_duration = None \/ DurationFiltered(r.commit_duration, lo, hi)
           THEN "filtered"
    ELSE "kept"

\* lines 633-646: what the first loop does with the result r of
\* extract_commit_from_trace
PipeOutcome(r, lo, hi) ==
    IF r.first_line = None \/ r.commit_section = None THEN "skipped"
    ELSE IF DurationFiltered(r.commit_duration, lo, hi) THEN "filtered"
    ELSE "kept"

\* lines 694-732 with the server->client branch not counting
CategoryCounter_ClientServerOnly(cat) ==
    IF cat = "query_intent" THEN "query_intent_count"
    ELSE IF cat \in {"network", "network_abnormal"} THEN "network_count"
    ELSE IF cat = "network_server_client" THEN "none"
    ELSE IF cat = "raft" THEN "raft_count"
    ELSE IF cat = "store_send" THEN "store_send_count"
    ELSE IF cat = "replica_send" THEN "replica_send_count"
    ELSE "other_count"

\* lines 694-732: the counter the branch that sets the category increments
CategoryCounter(cat) ==
    IF cat = "query_intent" THEN "query_intent_count"
    ELSE IF cat \in {"network", "network_server_client", "network_abnormal"}
           THEN "network_count"
    ELSE IF cat = "raft" THEN "raft_count"
    ELSE IF cat = "store_send" THEN "store_send_count"
    ELSE IF cat = "replica_send" THEN "replica_send_count"
    ELSE "other_count"

\* lines 735-786: the categories whose target directory is made in the loop
NodeDirCategories ==
    {"network", "network_server_client", "network_abnormal", "raft", "store_send",
     "replica_send"}

PipeInit ==
    /\ trace_files \in SeqsUpTo(PipeTraceFiles, MaxFiles)
    /\ min_duration \in MinDurations
    /\ file_index = 0
    /\ ppc = "start"
    /\ write_index = 0
    /\ processed_count = 0
    /\ skipped_count = 0
    /\ filtered_count = 0
    /\ query_intent_count = 0
    /\ network_count = 0
    /\ raft_count = 0
    /\ store_send_count = 0
    /\ replica_send_count = 0
    /\ other_count = 0
    /\ written = <<>>
    /\ valid_commits = <<>>
    /\ first_line = <<>>
    /\ commit_section = <<>>
    /\ commit_duration = <<>>
    /\ timing_analysis = NoAnalysis
    /\ category = "unset"
    \* the other components are not running
    /\ lines = <<>>
    /\ readable = TRUE
    /\ min_threshold_ms = 0
    /\ filter_pattern = [kind |-> "none"]
    /\ pc = "idle"
    /\ i = 0
    /\ capturing = FALSE
    /\ current_trace_lines = <<>>
    /\ current_trace_duration = 0
    /\ traces = <<>>
    /\ cur_start = 0
    /\ starts = <<>>
    /\ cpc = "idle"
    /\ all_traces = <<>>
    /\ rpc = "idle"
    /\ trace_lines = <<>>
    /\ trace_readable = TRUE
    /\ epc = "idle"
    /\ apc = "idle"
    /\ network_result = NoAnalysis
    /\ raft_result = NoAnalysis
    /\ store_send_result = NoAnalysis
    /\ replica_send_result = NoAnalysis
    /\ run = 1
    /\ first_result = <<>>
    /\ log_files = <<>>
    /\ file_no = 0
    /\ zpc = "idle"
    /\ files_with_zero_traces = 0
    /\ trace_count = 0
    /\ per_file = <<>>

\* lines 600-620: no trace file ends main; otherwise the counters start at 0
PipeFindTraceFiles ==
    /\ UNCHANGED <<segVars, anaVars, rerunVars, zipVars>>
    /\ ppc = "start"
    /\ IF trace_files = <<>>
         THEN /\ ppc' = "nofiles"
              /\ file_index' = file_index
         ELSE /\ ppc' = "read"
              /\ file_index' = 1
    /\ processed_count' = 0
    /\ skipped_count' = 0
    /\ filtered_count' = 0
    /\ valid_commits' = <<>>
    /\ UNCHANGED <<trace_files, write_index, query_intent_count, network_count,
                   raft_count, store_send_count, replica_send_count, other_count,
                   written, clsVars, all_traces, rpc, trace_lines, trace_readable,
                   min_duration, epc, first_line, commit_duration>>

\* lines 622-659: the body of the first loop for the next trace file
PipeProcessFile ==
    /\ UNCHANGED <<segVars, anaVars, rerunVars, zipVars>>
    /\ ppc = "read"
    /\ file_index <= Len(trace_files)
    /\ LET f == trace_files[file_index]
           r == extract_commit_from_trace(f.lines, f.readable)
           o == PipeOutcome(r, min_duration, max_duration)
       IN  IF ~f.name_ok
             THEN UNCHANGED <<first_line, commit_section, commit_duration,
                              timing_analysis, skipped_count, filtered_count,
                              valid_commits>>
             ELSE /\ first_line' = r.first_line
                  /\ commit_section' = r.commit_section
                  /\ commit_duration' = r.commit_duration
                  /\ skipped_count' = IF o = "skipped" THEN skipped_count + 1
                                      ELSE skipped_count
                  /\ filtered_count' = IF o = "filtered" THEN filtered_count + 1
                                       ELSE filtered_count
                  /\ IF o = "kept"
                       THEN /\ timing_analysis' = analyze_commit_timing(r.commit_section)
                            /\ valid_commits' =
                                   Append(valid_commits,
                                          [trace_number    |-> file_index,
                                           first_line      |-> r.first_line,
                                           commit_section  |-> r.commit_section,
                                           commit_duration |-> r.commit_duration,
                                           timing_analysis |->
                                               analyze_commit_timing(r.commit_section)])
                       ELSE UNCHANGED <<timing_analysis, valid_commits>>
    /\ file_index' = file_index + 1
    /\ UNCHANGED <<trace_files, ppc, write_index, processed_count, query_intent_count,
                   network_count, raft_count, store_send_count, replica_send_count,
                   other_count, written, cpc, category, all_traces, rpc, trace_lines,
                   trace_readable, min_duration, epc>>

\* lines 661-684: after the last file the sort, and the category counters at 0
PipeSort ==
    /\ UNCHANGED <<segVars, clsVars, extVars, anaVars, rerunVars, zipVars>>
    /\ ppc = "read"
    /\ file_index > Len(trace_files)
    /\ valid_commits' = SortDescending(valid_commits, CommitKeys(valid_commits))
    /\ query_intent_count' = 0
    /\ network_count' = 0
    /\ raft_count' = 0
    /\ store_send_count' = 0
    /\ replica_send_count' = 0
    /\ other_count' = 0
    /\ write_index' = 0
    /\ ppc' = "write"
    /\ UNCHANGED <<trace_files, file_index, processed_count, written, all_traces, rpc>>

\* lines 688-732: the locals and the counters after the category of the next
\* record of the sorted list is decided
PipeClassified(rec, cat) ==
    /\ first_line' = rec.first_line
    /\ commit_section' = rec.commit_section
    /\ commit_duration' = rec.commit_duration
    /\ timing_analysis' = rec.timing_analysis
    /\ category' = cat
    /\ query_intent_count' = IF CategoryCounter(cat) = "query_intent_count"
                               THEN query_intent_count + 1 ELSE query_intent_count
    /\ network_count' = IF CategoryCounter(cat) = "network_count"
                          THEN network_count + 1 ELSE network_count
    /\ raft_count' = IF CategoryCounter(cat) = "raft_count"
                       THEN raft_count + 1 ELSE raft_count
    /\ store_send_count' = IF CategoryCounter(cat) = "store_send_count"
                             THEN store_send_count + 1 ELSE store_send_count
    /\ replica_send_count' = IF CategoryCounter(cat) = "replica_send_count"
                               THEN replica_send_count + 1 ELSE replica_send_count
    /\ other_count' = IF CategoryCounter(cat) = "other_count"
                        THEN other_count + 1 ELSE other_count

\* lines 687-875: the body of the second loop for the next record: its
\* category, its counter, and the write, which works or raises inside the try
PipeWriteCommit ==
    /\ UNCHANGED <<segVars, anaVars, rerunVars, zipVars>>
    /\ ppc = "write"
    /\ write_index < Len(valid_commits)
    /\ LET rec == valid_commits[write_index + 1]
           cat == Categorize(rec.commit_section, rec.timing_analysis)
       IN  /\ PipeClassified(rec, cat)
           /\ \E ok \in BOOLEAN :
                  /\ processed_count' = IF ok THEN processed_count + 1
                                        ELSE processed_count
                  /\ skipped_count' = IF ok THEN skipped_count ELSE skipped_count + 1
                  /\ written' = Append(written,
                                       [index        |-> write_index + 1,
                                        trace_number |-> rec.trace_number,
                                        category     |-> cat,
                                        ok           |-> ok])
    /\ write_index' = write_index + 1
    /\ UNCHANGED <<trace_files, file_index, ppc, cpc, rankVars, trace_lines,
                   trace_readable, min_duration, epc, filtered_count>>

\* lines 735-786: mkdir of the node directory is outside the try; when it
\* raises, main ends with the exception
PipeMkdirRaises ==
    /\ UNCHANGED <<segVars, anaVars, rerunVars, zipVars>>
    /\ ppc = "write"
    /\ write_index < Len(valid_commits)
    /\ LET rec == valid_commits[write_index + 1]
           cat == Categorize(rec.commit_section, rec.timing_analysis)
       IN  /\ cat \in NodeDirCategories
           /\ PipeClassified(rec, cat)
    /\ ppc' = "raised"
    /\ UNCHANGED <<trace_files, file_index, write_index, processed_count, written,
                   cpc, rankVars, trace_lines, trace_readable, min_duration, epc,
                   skipped_count, filtered_count>>

\* lines 877-913: the counts are printed
PipeReport ==
    /\ UNCHANGED <<segVars, clsVars, rankVars, extVars, anaVars, rerunVars, zipVars>>
    /\ ppc = "write"
    /\ write_index = Len(valid_commits)
    /\ ppc' = "done"
    /\ UNCHANGED <<trace_files, file_index, write_index, processed_count,
                   query_intent_count, network_count, raft_count, store_send_count,
                   replica_send_count, other_count, written>>

PipeNext ==
    \/ PipeFindTraceFiles
    \/ PipeProcessFile
    \/ PipeSort
    \/ PipeWriteCommit
    \/ PipeMkdirRaises
    \/ PipeReport

PipeSpec == PipeInit /\ [][PipeNext]_vars

(***************************************************************************)
(* extract_slow_traces_from_debug_zip (analyze_debug_zip.py): the log      *)
(* files come in the order os.listdir gave them, which is any order.  The  *)
(* segmenter's steps are the actions of SegSpec.                           *)
(***************************************************************************)
ZipLogFiles ==
    LET t300 == Line(TRUE,  "num",  300, TRUE,  <<"T", "nl">>)
        t100 == Line(TRUE,  "num",  100, TRUE,  <<"T", "nl">>)
        dots == Line(TRUE,  "dots", 0,   TRUE,  <<"T", "nl">>)
        x    == Line(FALSE, "none", 0,   FALSE, <<"x", "nl">>)
        a    == Line(FALSE, "none", 0,   FALSE, <<"A", "nl">>)
        b    == Line(FALSE, "none", 0,   TRUE,  <<"B", "nl">>)
    IN  { [lines |-> <<t300, x>>,          readable |-> TRUE],
          [lines |-> <<t100, a, b, t300>>, readable |-> TRUE],
          [lines |-> <<x, b>>,             readable |-> TRUE],    \* no trace
          [lines |-> <<t300, a>>,          readable |-> FALSE],   \* open() fails
          [lines |-> <<t100, dots>>,       readable |-> TRUE] }   \* float() raises

\* lines 185-189 without the else branch
CountZeroTraces_Never(n, ts) == n

\* lines 185-189: files_with_zero_traces after a file whose call returned ts
CountZeroTraces(n, ts) == IF ts # <<>> THEN n ELSE n + 1

ZipInit ==
    /\ log_files \in SeqsUpTo(ZipLogFiles, MaxLogFiles)
    /\ min_threshold_ms \in MinThresholds
    /\ filter_pattern \in FilterPatterns
    /\ file_no = 0
    /\ zpc = "start"
    /\ files_with_zero_traces = 0
    /\ trace_count = 0
    /\ per_file = <<>>
    /\ all_traces = <<>>
    /\ lines = <<>>
    /\ readable = TRUE
    /\ pc = "idle"
    /\ i = 0
    /\ capturing = FALSE
    /\ current_trace_lines = <<>>
    /\ current_trace_duration = 0
    /\ traces = <<>>
    /\ cur_start = 0
    /\ starts = <<>>
    \* the other components are not running
    /\ commit_section = <<>>
    /\ cpc = "idle"
    /\ timing_analysis = NoAnalysis
    /\ category = "unset"
    /\ valid_commits = <<>>
    /\ rpc = "idle"
    /\ trace_lines = <<>>
    /\ trace_readable = TRUE
    /\ min_duration = 50
    /\ epc = "idle"
    /\ first_line = <<>>
    /\ commit_duration = <<>>
    /\ skipped_count = 0
    /\ filtered_count = 0
    /\ apc = "idle"
    /\ network_result = NoAnalysis
    /\ raft_result = NoAnalysis
    /\ store_send_result = NoAnalysis
    /\ replica_send_result = NoAnalysis
    /\ run = 1
    /\ first_result = <<>>
    /\ trace_files = <<>>
    /\ file_index = 0
    /\ ppc = "idle"
    /\ write_index = 0
    /\ processed_count = 0
    /\ query_intent_count = 0
    /\ network_count = 0
    /\ raft_count = 0
    /\ store_send_count = 0
    /\ replica_send_count = 0
    /\ other_count = 0
    /\ written = <<>>

\* lines 171-180: no log file ends the function (return 0)
ZipFindLogFiles ==
    /\ UNCHANGED <<segVars, clsVars, extVars, anaVars, rerunVars, pipeVars>>
    /\ zpc = "start"
    /\ IF log_files = <<>>
         THEN /\ zpc' = "nofiles"
              /\ file_no' = file_no
         ELSE /\ zpc' = "next"
              /\ file_no' = 1
    /\ all_traces' = <<>>
    /\ files_with_zero_traces' = 0
    /\ UNCHANGED <<log_files, trace_count, per_file, valid_commits, rpc>>

\* lines 183-184 and 48-50: the segmenter is called on the next log file
ZipCallSegmenter ==
    /\ UNCHANGED <<clsVars, rankVars, extVars, anaVars, rerunVars, pipeVars>>
    /\ zpc = "next"
    /\ file_no <= Len(log_files)
    /\ lines' = log_files[file_no].lines
    /\ readable' = log_files[file_no].readable
    /\ pc' = "compile"
    /\ traces' = FreshTraces
    /\ current_trace_lines' = <<>>
    /\ current_trace_duration' = 0
    /\ capturing' = FALSE
    /\ i' = 0
    /\ cur_start' = 0
    /\ starts' = <<>>
    /\ zpc' = "call"
    /\ UNCHANGED <<min_threshold_ms, filter_pattern, log_files, file_no,
                   files_with_zero_traces, trace_count, per_file>>

\* lines 185-189: the list the call returned joins all_traces, or the file is
\* counted among those with zero traces
ZipCollect ==
    /\ UNCHANGED <<clsVars, extVars, anaVars, rerunVars, pipeVars>>
    /\ zpc = "call"
    /\ pc = "done"
    /\ all_traces' = IF traces # <<>> THEN all_traces \o traces ELSE all_traces
    /\ files_with_zero_traces' = CountZeroTraces(files_with_zero_traces, traces)
    /\ per_file' = Append(per_file, traces)
    /\ file_no' = file_no + 1
    /\ zpc' = "next"
    /\ pc' = "idle"
    /\ UNCHANGED <<lines, readable, min_threshold_ms, filter_pattern, i, capturing,
                   current_trace_lines, current_trace_duration, traces, cur_start,
                   starts, log_files, trace_count, valid_commits, rpc>>

\* line 184: the ValueError of the call is not caught; it ends the function
ZipRaise ==
    /\ UNCHANGED <<segVars, clsVars, rankVars, extVars, anaVars, rerunVars, pipeVars>>
    /\ zpc = "call"
    /\ pc = "raised"
    /\ zpc' = "aborted"
    /\ UNCHANGED <<log_files, file_no, files_with_zero_traces, trace_count, per_file>>

\* lines 191-192: after the last file, the sort
ZipSort ==
    /\ UNCHANGED <<segVars, clsVars, extVars, anaVars, rerunVars, pipeVars>>
    /\ zpc = "next"
    /\ file_no > Len(log_files)
    /\ all_traces' = SortDescending(all_traces, TraceKeys(all_traces))
    /\ zpc' = "sorted"
    /\ UNCHANGED <<log_files, file_no, files_with_zero_traces, trace_count, per_file,
                   valid_commits, rpc>>

\* lines 195-201: the next trace of the sorted list gets the next number
ZipWriteTrace ==
    /\ UNCHANGED <<segVars, clsVars, rankVars, extVars, anaVars, rerunVars, pipeVars>>
    /\ zpc = "sorted"
    /\ trace_count < Len(all_traces)
    /\ trace_count' = trace_count + 1
    /\ UNCHANGED <<log_files, file_no, zpc, files_with_zero_traces, per_file>>

\* lines 203-209: the counts are printed, trace_count is returned
ZipReturn ==
    /\ UNCHANGED <<segVars, clsVars, rankVars, extVars, anaVars, rerunVars, pipeVars>>
    /\ zpc = "sorted"
    /\ trace_count = Len(all_traces)
    /\ zpc' = "returned"
    /\ UNCHANGED <<log_files, file_no, files_with_zero_traces, trace_count, per_file>>

ZipNext ==
    \/ ZipFindLogFiles
    \/ ZipCallSegmenter
    \/ SegCompileFilter
    \/ SegReadFile
    \/ SegThresholdLine
    \/ SegCaptureLine
    \/ SegSkipLine
    \/ SegEndOfInput
    \/ ZipCollect
    \/ ZipRaise
    \/ ZipSort
    \/ ZipWriteTrace
    \/ ZipReturn

ZipSpec == ZipInit /\ [][ZipNext]_vars

(***************************************************************************)
(* Properties of the segmenter.                                            *)
(***************************************************************************)
\* the flush predicate as specified: the duration reaches the minimum, and no
\* filter was supplied or the filter matches the concatenated buffer
SegPasses(duration, ls) ==
    /\ duration >= min_threshold_ms
    /\ \/ filter_pattern.kind = "none"
       \/ Search(filter_pattern.pat, Join(ls))

\* the list of traces after a flush of buffer ls, as specified
SegAfterFlush(duration, ls) ==
    IF SegPasses(duration, ls)
      THEN Append(traces, [duration |-> duration, lines |-> ls])
      ELSE traces

\* the three flush points, as conditions on the line being read
AtThresholdWhileCapturing ==
    pc = "loop" /\ i <= Len(lines) /\ capturing /\ threshold_re(lines[i])
AtLookaheadBoundary ==
    /\ pc = "loop" /\ i <= Len(lines) /\ capturing /\ ~threshold_re(lines[i])
    /\ i + 1 <= Len(lines)
    /\ new_log_entry_re(lines[i + 1]) /\ ~threshold_re(lines[i + 1])
AtEndWhileCapturing ==
    pc = "loop" /\ i > Len(lines) /\ capturing

\* C3: at every flush point (a threshold line while Capturing, a lookahead
\* boundary, the end of the input) the buffered trace is appended to the output
\* if and only if it passes the flush predicate, and the output is otherwise
\* left as it was.
C3_FlushEmitsIffPasses ==
    [][ /\ AtThresholdWhileCapturing =>
             traces' = SegAfterFlush(current_trace_duration, current_trace_lines)
        /\ AtLookaheadBoundary =>
             traces' = SegAfterFlush(current_trace_duration,
                                     Append(current_trace_lines, lines[i]))
        /\ AtEndWhileCapturing =>
             traces' = SegAfterFlush(current_trace_duration, current_trace_lines)
      ]_vars

\* C3, on the flush points the control reaches (lines 80, 113, 137): the same
\* statement without the threshold lines whose duration token makes float() raise.
SegFlushEmitsIffPassesWhenParsed ==
    [][ /\ (AtThresholdWhileCapturing /\ pc' = "loop") =>
             traces' = SegAfterFlush(current_trace_duration, current_trace_lines)
        /\ AtLookaheadBoundary =>
             traces' = SegAfterFlush(current_trace_duration,
                                     Append(current_trace_lines, lines[i]))
        /\ AtEndWhileCapturing =>
             traces' = SegAfterFlush(current_trace_duration, current_trace_lines)
      ]_vars

\* C4: every emitted trace has at least one line, and its first line matches the
\* threshold pattern.
C4_TraceStartsAtThreshold ==
    \A k \in 1..Len(traces) :
        /\ Len(traces[k].lines) >= 1
        /\ threshold_re(traces[k].lines[1])

\* a run that emitted a trace of several lines and one of a single line
C4_Witness ==
    /\ pc = "done"
    /\ \E k \in 1..Len(traces) : Len(traces[k].lines) >= 2
    /\ \E k \in 1..Len(traces) : Len(traces[k].lines) = 1

\* C5: a threshold line read while Capturing flushes the buffer (the lines from
\* the previous threshold line to the line before this one), starts a new trace
\* whose buffer is exactly that line, and leaves the segmenter Capturing.
C5_ThresholdWhileCapturing ==
    [][ AtThresholdWhileCapturing =>
          /\ capturing'
          /\ current_trace_lines' = <<lines[i]>>
          /\ current_trace_lines = SubSeq(lines, cur_start, i - 1)
          /\ traces' = SegAfterFlush(current_trace_duration, current_trace_lines)
          /\ pc' = "loop"
      ]_vars

\* C5, for the threshold lines whose duration token float() accepts or
\* duration_re does not match: the statement of C5 holds of them.
SegThresholdWhileCapturingWhenParsed ==
    [][ (AtThresholdWhileCapturing /\ ~(duration_re(lines[i]) /\ FloatRaises(lines[i]))) =>
          /\ capturing'
          /\ current_trace_lines' = <<lines[i]>>
          /\ current_trace_lines = SubSeq(lines, cur_start, i - 1)
          /\ traces' = SegAfterFlush(current_trace_duration, current_trace_lines)
          /\ pc' = "loop"
      ]_vars

\* C6: a line that is no threshold line, read while Capturing, is appended to the
\* buffer; when the next line is a boundary line and no threshold line the
\* buffer is flushed and the segmenter goes Idle; a line that is no threshold
\* line, read while Idle, changes neither the buffer nor the output.
C6_CaptureAndLookahead ==
    [][ /\ (pc = "loop" /\ i <= Len(lines) /\ capturing /\ ~threshold_re(lines[i])) =>
             IF AtLookaheadBoundary
               THEN /\ traces' = SegAfterFlush(current_trace_duration,
                                               Append(current_trace_lines, lines[i]))
                    /\ ~capturing'
                    /\ current_trace_lines' = <<>>
               ELSE /\ current_trace_lines' = Append(current_trace_lines, lines[i])
                    /\ capturing'
                    /\ traces' = traces
        /\ (pc = "loop" /\ i <= Len(lines) /\ ~capturing /\ ~threshold_re(lines[i])) =>
             /\ ~capturing'
             /\ current_trace_lines' = current_trace_lines
             /\ current_trace_lines = <<>>
             /\ traces' = traces
      ]_vars

\* a trace ended by the lookahead was emitted, and a later line was dropped
C6_Witness ==
    /\ pc = "loop"
    /\ ~capturing
    /\ Len(traces) = 1
    /\ i = Len(lines) + 1
    /\ ~threshold_re(lines[i - 1])
    /\ starts[1] + Len(traces[1].lines) < i

\* the last line of the trace that starts at threshold line s
C7_End(s) ==
    CHOOSE e \in s..Len(lines) :
        /\ \/ e = Len(lines)
           \/ threshold_re(lines[e + 1])
           \/ e > s /\ new_log_entry_re(lines[e + 1])
        /\ \A d \in s..(e - 1) :
               ~ \/ threshold_re(lines[d + 1])
                 \/ d > s /\ new_log_entry_re(lines[d + 1])

C7_Duration(s) == IF lines[s].tok = "num" THEN lines[s].ms ELSE 0

\* C7: when the function returns after reading the file, every captured trace
\* that passes the flush predicate, the one the end of the input cut off
\* included, is in the output, and no trace is in the output twice.
C7_EndOfInputFlushes ==
    (pc = "done" /\ readable /\ filter_pattern.kind # "invalid") =>
        /\ Len(starts) = Len(traces)
        /\ \A j, k \in 1..Len(starts) : j < k => starts[j] < starts[k]
        /\ \A s \in 1..Len(lines) :
              threshold_re(lines[s]) =>
                  LET tr == SubSeq(lines, s, C7_End(s))
                  IN  SegPasses(C7_Duration(s), tr) <=>
                          \E k \in 1..Len(traces) :
                              /\ k <= Len(starts)
                              /\ starts[k] = s
                              /\ traces[k] = [duration |-> C7_Duration(s), lines |-> tr]

\* the input ended while Capturing, and the trace it cut off was emitted after
\* an earlier one
C7_Witness ==
    /\ pc = "done"
    /\ capturing
    /\ Len(traces) = 2
    /\ starts[2] + Len(traces[2].lines) = Len(lines) + 1
    /\ Len(traces[2].lines) >= 2

\* C8: a threshold line whose duration token is no number gives the trace it
\* starts the duration 0, and the segmenter goes on: it never aborts.
C8_UnparsableDurationIsZero ==
    /\ pc # "raised"
    /\ (pc = "loop" /\ i > 1 /\ threshold_re(lines[i - 1]) /\ lines[i - 1].tok # "num") =>
           /\ capturing
           /\ current_trace_duration = 0

\* C9: a filter pattern that does not compile gives an outcome other than the
\* normal return of an empty list, which is what a valid filter that matches no
\* trace gives.
C9_InvalidFilterIsDistinct ==
    filter_pattern.kind = "invalid" => ~(pc = "done" /\ traces = <<>>)

(***************************************************************************)
(* Properties of the classifier.                                           *)
(***************************************************************************)
\* the lines of a section that can be its dominant step: those with two
\* timestamps that match no ignore pattern or, when there is none, those with
\* two timestamps
DominantCandidates(section) ==
    LET dual == {k \in 1..Len(section) : section[k].dual}
        kept == {k \in dual : section[k].kind \notin IgnoredKinds}
    IN  IF kept # {} THEN kept ELSE dual

\* the dominant step: the first candidate with the greatest step time
DominantStep(section) ==
    CHOOSE k \in DominantCandidates(section) :
        \A h \in DominantCandidates(section) :
            \/ section[h].step < section[k].step
            \/ section[h].step = section[k].step /\ h >= k

QueryIntentHint(section) ==
    /\ DominantCandidates(section) # {}
    /\ section[DominantStep(section)].kind = "query_intent"

\* a line of kind `first` and the nearest following line of kind `second` are
\* more than `threshold` apart
LatencyOver(section, first, second, threshold) ==
    \E a, b \in 1..Len(section) :
        /\ a < b
        /\ section[a].kind = first
        /\ section[b].kind = second
        /\ \A h \in (a + 1)..(b - 1) : section[h].kind # second
        /\ section[b].total - section[a].total > threshold

RECURSIVE RaftSum(_, _, _)
RaftSum(section, node, k) ==
    IF k = 0 THEN 0
    ELSE RaftSum(section, node, k - 1)
         + (IF section[k].kind \in RaftKinds /\ section[k].node = node
              THEN section[k].step ELSE 0)

\* the six signals of the chain, in its order
Signals(section) ==
    << LatencyOver(section, "client", "server", network_threshold),
       LatencyOver(section, "sending", "received", network_threshold),
       analyze_network_timing(section, network_threshold,
                              abnormal_threshold).abnormal_network # NoAnalysis,
       \E k \in 1..Len(section) :
           RaftSum(section, section[k].node, Len(section)) > raft_threshold,
       \E k \in 1..Len(section) :
           section[k].kind = "store_send" /\ section[k].step > store_send_threshold,
       \E k \in 1..Len(section) :
           section[k].kind = "replica_send" /\ section[k].step > replica_send_threshold >>

SignalCategories ==
    << "network", "network_server_client", "network_abnormal",
       "raft", "store_send", "replica_send" >>

\* C1: a commit whose dominant step is a QueryIntent line is classified
\* query_intent, whatever other signals its section raises.
C1_QueryIntentFirst ==
    (cpc = "classified" /\ QueryIntentHint(commit_section)) =>
        category = "query_intent"

\* a commit classified query_intent whose section also has a client->server
\* latency above the network threshold
C1_Witness ==
    /\ cpc = "classified"
    /\ category = "query_intent"
    /\ QueryIntentHint(commit_section)
    /\ Signals(commit_section)[1]

\* C2: a commit without the QueryIntent hint gets the category of the first
\* signal of the chain that fires, and "other" exactly when none fires.
C2_FirstSignalWins ==
    (cpc = "classified" /\ ~QueryIntentHint(commit_section)) =>
        LET sig   == Signals(commit_section)
            fired == {k \in 1..6 : sig[k]}
        IN  /\ fired = {} <=> category = "other"
            /\ fired # {} =>
                 category = SignalCategories[CHOOSE k \in fired : \A h \in fired : k <= h]

\* a commit classified network_server_client whose section also raises the
\* abnormal flag
C2_Witness ==
    /\ cpc = "classified"
    /\ ~QueryIntentHint(commit_section)
    /\ category = "network_server_client"
    /\ Signals(commit_section)[3]

\* a commit classified raft whose section also raises the store-send signal
C2_RaftBeforeStoreSend ==
    /\ cpc = "classified"
    /\ category = "raft"
    /\ Signals(commit_section)[5]

(***************************************************************************)
(* Properties of the ranking.                                              *)
(***************************************************************************)
\* the place the record at place p has after a stable descending sort by the
\* durations ds: after the records of greater duration and the earlier records
\* of its duration
RankOf(ds, p) ==
    1 + Cardinality({q \in 1..Len(ds) : ds[q] > ds[p]})
      + Cardinality({q \in 1..(p - 1) : ds[q] = ds[p]})

StablyRanked(before, after, ds) ==
    /\ Len(after) = Len(before)
    /\ \A p \in 1..Len(before) :
           /\ RankOf(ds, p) <= Len(after)
           /\ after[RankOf(ds, p)] = before[p]

\* the durations the records are ranked by
TraceDurationsOf(sq) == [k \in 1..Len(sq) |-> sq[k].duration]
CommitDurationsOf(sq) ==
    [k \in 1..Len(sq) |->
        IF sq[k].commit_duration = <<>> THEN 0 ELSE sq[k].commit_duration[1]]

\* C10: ranking puts the records in descending order of duration and keeps
\* records of equal duration in the order of their discovery, in the trace
\* pipeline and in the commit pipeline.
C10_RankingStableDescending ==
    [][ /\ (rpc = "collect_traces" /\ rpc' = "ranked_traces") =>
             StablyRanked(all_traces, all_traces', TraceDurationsOf(all_traces))
        /\ (rpc = "collect_commits" /\ rpc' = "ranked_commits") =>
             StablyRanked(valid_commits, valid_commits', CommitDurationsOf(valid_commits))
      ]_vars

\* the traces with durations 120, 95, 150, 95, ranked 150, 120, 95 (second
\* found), 95 (fourth found)
C10_Witness ==
    /\ rpc = "ranked_traces"
    /\ all_traces = << [duration |-> 150, found |-> 3], [duration |-> 120, found |-> 1],
                       [duration |-> 95,  found |-> 2], [duration |-> 95,  found |-> 4] >>

\* commits of equal duration, ranked in the order of their discovery
C10_CommitWitness ==
    /\ rpc = "ranked_commits"
    /\ Len(valid_commits) = 3
    /\ valid_commits[1].commit_duration = Some(120)
    /\ valid_commits[2] = [commit_duration |-> Some(95), found |-> 1]
    /\ valid_commits[3] = [commit_duration |-> Some(95), found |-> 3]

(***************************************************************************)
(* Properties of the commit pipeline.                                      *)
(***************************************************************************)
\* the trace file has a line with the commit marker
HasMarker == \E k \in 1..Len(trace_lines) : trace_lines[k].kind = "commit_marker"

\* the indices, in the commit section, of the lines with a leading elapsed time
Stamped == {k \in 1..Len(commit_section) :
                commit_section[k].dual \/ commit_section[k].kind = "elapsed_only"}

\* C11: the commit section is exactly the suffix of the trace's lines that
\* starts at the first line with the commit marker; with no such line the
\* extractor returns absent, the trace is counted as skipped and it is not
\* among the commits that are classified
C11_CommitSectionIsSuffix ==
    (epc # "extract" /\ trace_readable) =>
        IF HasMarker
          THEN /\ \E k \in 1..Len(trace_lines) :
                     /\ trace_lines[k].kind = "commit_marker"
                     /\ \A h \in 1..(k - 1) : trace_lines[h].kind # "commit_marker"
                     /\ Len(commit_section) = Len(trace_lines) - k + 1
                     /\ \A j \in 1..Len(commit_section) :
                            commit_section[j] = trace_lines[k + j - 1]
               /\ epc # "skipped"
               /\ skipped_count = 0
          ELSE /\ commit_section = <<>>
               /\ epc = "skipped"
               /\ skipped_count = 1
               /\ valid_commits = <<>>

\* a section cut at the first of two marker lines, which is not the file's
\* first line
C11_Witness ==
    /\ epc = "filter"
    /\ Len(trace_lines) = 4
    /\ trace_lines[1].kind = "header"
    /\ trace_lines[2].kind = "commit_marker"
    /\ trace_lines[3].kind = "received"
    /\ trace_lines[4].kind = "commit_marker"
    /\ Len(commit_section) = 3

\* a trace without a marker line, skipped
C11_SkippedWitness ==
    /\ epc = "skipped"
    /\ trace_readable
    /\ Len(trace_lines) = 3
    /\ skipped_count = 1

\* C12: the commit duration is the elapsed time of the last line of the
\* section with a leading elapsed-time token minus that of the first such
\* line, null when no line has one, and a negative difference is returned as
\* it is
C12_CommitDurationIsLastMinusFirst ==
    (epc \in {"filter", "filtered", "analyze", "collected"}) =>
        IF Stamped = {}
          THEN commit_duration = <<>>
          ELSE \E a \in Stamped, b \in Stamped :
                   /\ \A k \in Stamped : a <= k /\ k <= b
                   /\ commit_duration =
                          <<commit_section[b].total - commit_section[a].total>>

\* timestamps out of order: 130 ms, then 90 ms
C12_Witness ==
    /\ epc = "filter"
    /\ Len(commit_section) = 3
    /\ ~commit_section[1].dual
    /\ commit_section[2].total = 130
    /\ commit_section[3].total = 90
    /\ commit_duration = <<-40>>

\* a section none of whose lines has an elapsed time
C12_NullWitness ==
    /\ epc = "filter"
    /\ Len(commit_section) = 2
    /\ commit_duration = <<>>

\* C13: a trace whose commit duration is zero or negative is not rejected; it
\* stays among the commits that are classified and ranked
C13_NonPositiveDurationKept ==
    (/\ epc \in {"filtered", "analyze", "collected"}
     /\ commit_duration # <<>>
     /\ commit_duration[1] <= 0)
        => epc # "filtered"

\* C13, amended: a zero or negative commit duration is treated like any other
\* duration: the trace is left out (and counted as filtered) exactly when the
\* duration is below --min-duration or above --max-duration; otherwise it
\* joins the commits that are classified and ranked, with its duration
C13_NonPositiveDurationFilteredLikeAny ==
    (/\ epc \in {"filtered", "analyze", "collected"}
     /\ commit_duration # <<>>
     /\ commit_duration[1] <= 0)
        => /\ epc = "filtered" <=>
                  (commit_duration[1] < min_duration \/ commit_duration[1] > 150)
           /\ epc = "filtered" => (filtered_count = 1 /\ valid_commits = <<>>)
           /\ epc # "filtered" => filtered_count = 0
           /\ epc = "collected" =>
                  /\ Len(valid_commits) = 1
                  /\ valid_commits[1].commit_duration = commit_duration
                  /\ valid_commits[1].commit_section = commit_section

\* a negative duration that --min-duration=-40 lets through
C13_Witness ==
    /\ epc = "collected"
    /\ min_duration = -40
    /\ commit_duration = <<-10>>
    /\ Len(valid_commits) = 1

\* a zero duration the default --min-duration leaves out
C13_FilteredWitness ==
    /\ epc = "filtered"
    /\ min_duration = 50
    /\ commit_duration = <<0>>

(***************************************************************************)
(* Properties of the analyzers.                                            *)
(***************************************************************************)
\* C14: a section with at least one dual-timestamp line gets a dominant step,
\* the event with the greatest step time among the events no ignore pattern
\* matches, or among all events when every event is ignored; there is no
\* result only when the section has no dual-timestamp line
C14_DominantStepWithFallback ==
    (cpc \in {"classify", "classified"}) =>
        LET dual == {k \in 1..Len(commit_section) : commit_section[k].dual}
            kept == {k \in dual : commit_section[k].kind
                                      \notin {"commit_explicit", "descriptors", "received"}}
            candidates == IF kept # {} THEN kept ELSE dual
        IN  IF dual = {}
              THEN timing_analysis = NoAnalysis
              ELSE /\ timing_analysis # NoAnalysis
                   /\ \E k \in candidates :
                          /\ \A h \in candidates :
                                 commit_section[h].step <= commit_section[k].step
                          /\ timing_analysis.longest_step_line = commit_section[k]
                          /\ timing_analysis.longest_step_time = commit_section[k].step

\* every dual-timestamp line of the section is ignored, and the longer of them
\* is the dominant step
C14_Witness ==
    /\ cpc = "classify"
    /\ Len(commit_section) = 3
    /\ ~commit_section[1].dual
    /\ commit_section[2].kind = "received" /\ commit_section[2].step = 2
    /\ commit_section[3].kind = "received" /\ commit_section[3].step = 90
    /\ timing_analysis # NoAnalysis
    /\ timing_analysis.longest_step_time = 90

\* an ignored line with the greatest step time is passed over
C14_IgnoredWitness ==
    /\ cpc = "classify"
    /\ Len(commit_section) = 3
    /\ commit_section[2].kind = "received" /\ commit_section[2].step = 90
    /\ commit_section[3].kind = "submitting_proposal"
    /\ timing_analysis # NoAnalysis
    /\ timing_analysis.longest_step_time = 20

\* the pairs <<a, b>> of indices of the section: a line of kind `first` and the
\* nearest line of kind `second` after it
NearestPairs(section, first, second) ==
    {p \in (1..Len(section)) \X (1..Len(section)) :
        /\ p[1] < p[2]
        /\ section[p[1]].kind = first
        /\ section[p[2]].kind = second
        /\ \A h \in (p[1] + 1)..(p[2] - 1) : section[h].kind # second}

\* r is the pair of greatest latency among the pairs ps of the section, None
\* when there are none; the client is on the line side names
LongestOf(section, ps, r, side) ==
    IF ps = {} THEN r = NoAnalysis
    ELSE /\ r # NoAnalysis
         /\ \E p \in ps :
                /\ r.latency = section[p[2]].total - section[p[1]].total
                /\ r.client_node = section[p[side]].node
                /\ r.server_node = section[p[3 - side]].node
                /\ \A q \in ps : section[q[2]].total - section[q[1]].total <= r.latency

\* C15: every client-span line is paired with the nearest server-span line
\* after it, every 'node sending response' line with the nearest 'received
\* batch response' line after it; a pair's latency is the later line's
\* timestamp minus the earlier line's; a line with no partner after it makes
\* no pair; each direction reports its pair of greatest latency
C15_NearestFollowingPairs ==
    (apc = "network") =>
        /\ network_result # NoAnalysis
        /\ LongestOf(commit_section,
                     NearestPairs(commit_section, "client", "server"),
                     network_result.longest_client_server, 1)
        /\ LongestOf(commit_section,
                     NearestPairs(commit_section, "sending", "received"),
                     network_result.longest_server_client, 2)

\* two client lines, then two server lines: both client lines pair with the
\* first server line, and the later client line has a negative latency
C15_Witness ==
    /\ apc = "network"
    /\ Len(commit_section) = 5
    /\ commit_section[2].kind = "client" /\ commit_section[2].total = 10
    /\ commit_section[3].kind = "client" /\ commit_section[3].total = 65
    /\ commit_section[4].kind = "server" /\ commit_section[4].total = 60
    /\ commit_section[5].kind = "server" /\ commit_section[5].total = 70
    /\ network_result.longest_client_server.latency = 50
    /\ network_result.longest_server_client = NoAnalysis

\* a server line with no client line before it, and a client line with no
\* server line after it: no pair
C15_NoPartnerWitness ==
    /\ apc = "network"
    /\ Len(commit_section) = 3
    /\ commit_section[2].kind = "server"
    /\ commit_section[3].kind = "client"
    /\ network_result.longest_client_server = NoAnalysis

\* C16: the abnormal flag is raised exactly when both directions have a
\* maximum, the two maxima have the same client node and the same server
\* node, and their latencies differ by more than the abnormal-discrepancy
\* threshold, whatever the network threshold is
C16_AbnormalFlag ==
    (apc = "network") =>
        LET cs == network_result.longest_client_server
            sc == network_result.longest_server_client
        IN  (network_result.abnormal_network # NoAnalysis)
                <=> /\ cs # NoAnalysis
                    /\ sc # NoAnalysis
                    /\ cs.client_node = sc.client_node
                    /\ cs.server_node = sc.server_node
                    /\ \/ cs.latency - sc.latency > 5
                       \/ sc.latency - cs.latency > 5

\* 50 ms to the server and 18 ms back between the same two nodes: flagged,
\* with a discrepancy below the network threshold
C16_Witness ==
    /\ apc = "network"
    /\ network_result.longest_client_server # NoAnalysis
    /\ network_result.longest_server_client # NoAnalysis
    /\ network_result.longest_client_server.latency = 50
    /\ network_result.longest_server_client.latency = 18
    /\ network_result.abnormal_network # NoAnalysis
    /\ network_result.abnormal_network.discrepancy = 32

\* a discrepancy of exactly the threshold, not flagged
C16_BoundaryWitness ==
    /\ apc = "network"
    /\ network_result.longest_client_server # NoAnalysis
    /\ network_result.longest_server_client # NoAnalysis
    /\ network_result.longest_client_server.latency = 50
    /\ network_result.longest_server_client.latency = 55
    /\ network_result.abnormal_network = NoAnalysis

\* a large discrepancy between maxima of different servers, not flagged
C16_OtherNodeWitness ==
    /\ apc = "network"
    /\ network_result.longest_client_server # NoAnalysis
    /\ network_result.longest_server_client # NoAnalysis
    /\ network_result.longest_client_server.server_node = 4
    /\ network_result.longest_client_server.latency = 60
    /\ network_result.longest_server_client.latency = 18
    /\ network_result.abnormal_network = NoAnalysis

RECURSIVE RaftTotal(_, _, _)
\* the step times of the lines 1..k of the section that are one of the five
\* Raft events of the node, added up
RaftTotal(section, node, k) ==
    IF k = 0 THEN 0
    ELSE RaftTotal(section, node, k - 1)
         + (IF /\ section[k].dual
               /\ section[k].node = node
               /\ section[k].kind \in {"submitting_proposal", "flushing_proposal",
                                       "local_proposal", "applying_command",
                                       "local_result"}
              THEN section[k].step ELSE 0)

\* C17: the Raft analyzer adds up the step times of the five Raft events per
\* node and reports the node of greatest sum among the nodes whose sum is above
\* the Raft threshold, and no node when no sum is above it
C17_RaftSumPerNode ==
    (apc = "raft") =>
        LET nodes == {commit_section[k].node : k \in 1..Len(commit_section)}
            over  == {n \in nodes :
                          RaftTotal(commit_section, n, Len(commit_section)) > 40}
        IN  /\ raft_result # NoAnalysis
            /\ IF over = {}
                 THEN raft_result.longest_raft = NoAnalysis
                 ELSE /\ raft_result.longest_raft # NoAnalysis
                      /\ raft_result.longest_raft.node \in over
                      /\ raft_result.longest_raft.total_duration =
                             RaftTotal(commit_section, raft_result.longest_raft.node,
                                       Len(commit_section))
                      /\ \A n \in over :
                             RaftTotal(commit_section, n, Len(commit_section))
                                 <= raft_result.longest_raft.total_duration

\* node 1 has 20 + 25 = 45 ms in two events, node 2 one event of 30 ms: node 1
\* is reported with 45 ms
C17_Witness ==
    /\ apc = "raft"
    /\ Len(commit_section) = 4
    /\ commit_section[2].kind = "submitting_proposal"
    /\ commit_section[3].kind = "local_proposal"
    /\ commit_section[4].kind = "flushing_proposal"
    /\ raft_result.longest_raft # NoAnalysis
    /\ raft_result.longest_raft.node = 1
    /\ raft_result.longest_raft.total_duration = 45

\* positive sums, none above the threshold (node 1: 20 + 20 = 40 ms): no node
C17_NoneWitness ==
    /\ apc = "raft"
    /\ Len(commit_section) = 4
    /\ commit_section[2].kind = "submitting_proposal"
    /\ commit_section[3].kind = "submitting_proposal"
    /\ commit_section[4].kind = "local_proposal"
    /\ raft_result.longest_raft = NoAnalysis

\* r is the occurrence of the kind with the greatest step time among those
\* above the threshold, None when there is none above it
LongestAbove(section, kind, threshold, r) ==
    LET over == {k \in 1..Len(section) :
                     /\ section[k].dual
                     /\ section[k].kind = kind
                     /\ section[k].step > threshold}
    IN  IF over = {} THEN r = NoAnalysis
        ELSE /\ r # NoAnalysis
             /\ \E k \in over :
                    /\ r.duration = section[k].step
                    /\ r.node = section[k].node
                    /\ \A h \in over : section[h].step <= section[k].step

\* C18: the store-send analyzer and the replica-send analyzer each report the
\* one occurrence of their event with the greatest step time among the
\* occurrences above the analyzer's threshold, and nothing when no occurrence
\* is above it; durations are not added up
C18_LongestSingleOccurrence ==
    /\ (apc = "store_send") =>
           /\ store_send_result # NoAnalysis
           /\ LongestAbove(commit_section, "store_send", 10,
                           store_send_result.longest_store_send)
    /\ (apc = "replica_send") =>
           /\ replica_send_result # NoAnalysis
           /\ LongestAbove(commit_section, "replica_send", 10,
                           replica_send_result.longest_replica_send)

\* two store-send occurrences of 8 ms on one node: 16 ms in all, nothing
\* reported
C18_Witness ==
    /\ apc = "store_send"
    /\ Len(commit_section) = 3
    /\ commit_section[2].kind = "store_send" /\ commit_section[2].step = 8
    /\ commit_section[3].kind = "store_send" /\ commit_section[3].step = 8
    /\ store_send_result.longest_store_send = NoAnalysis

\* replica-send occurrences of 10 ms and 12 ms: the one of 12 ms is reported
C18_ReplicaWitness ==
    /\ apc = "replica_send"
    /\ Len(commit_section) = 3
    /\ commit_section[2].kind = "replica_send" /\ commit_section[2].step = 10
    /\ commit_section[3].kind = "replica_send" /\ commit_section[3].step = 12
    /\ replica_send_result.longest_replica_send # NoAnalysis
    /\ replica_send_result.longest_replica_send.duration = 12
    /\ replica_send_result.longest_replica_send.node = 2

C20_TracesAreDisjointSlices ==
    /\ Len(starts) = Len(traces)
    /\ \A k \in 1..Len(traces) :
           LET n == Len(traces[k].lines)
           IN  /\ n >= 1
               /\ starts[k] >= 1
               /\ starts[k] + n - 1 <= Len(lines)
               /\ \A j \in 1..n : traces[k].lines[j] = lines[starts[k] + j - 1]
               /\ k < Len(traces) => starts[k] + n <= starts[k + 1]

\* two traces with a line between them that is in neither
C20_Witness ==
    /\ pc = "done"
    /\ Len(lines) = 4
    /\ Len(traces) = 2
    /\ starts = <<1, 4>>
    /\ Len(traces[1].lines) = 2
    /\ Len(traces[2].lines) = 1

\* C23: the duration recorded for an emitted trace is the duration parsed from
\* the trace's own first line, never that of the threshold line that ended it
C23_DurationOfOwnFirstLine ==
    /\ Len(starts) = Len(traces)
    /\ \A k \in 1..Len(traces) :
           /\ lines[starts[k]].thr
           /\ traces[k].duration =
                  IF lines[starts[k]].tok = "num" THEN lines[starts[k]].ms ELSE 0

\* a trace of 300 ms was ended by a threshold line of 100 ms and emitted with
\* 300 ms
C23_Witness ==
    /\ pc = "loop"
    /\ i > 2
    /\ Len(traces) = 1
    /\ traces[1].duration = 300
    /\ lines[i - 1].thr /\ lines[i - 1].tok = "num" /\ lines[i - 1].ms = 100
    /\ starts[1] + Len(traces[1].lines) = i - 1
    /\ current_trace_duration = 100

RECURSIVE ThresholdLinesUpTo(_, _)
\* the number of threshold lines among the first n lines of the sequence
ThresholdLinesUpTo(ls, n) ==
    IF n = 0 THEN 0
    ELSE ThresholdLinesUpTo(ls, n - 1) + (IF ls[n].thr THEN 1 ELSE 0)

\* C24: between lines the segmenter is Capturing exactly when the buffer is
\* non-empty; a non-empty buffer starts with a threshold line and has no other
\* threshold line; the traces emitted are never more than the threshold lines
\* read, and as many at the end of the input when the minimum threshold is 0
\* and there is no filter
C24_CapturingIffBuffer ==
    /\ (pc = "loop") =>
           /\ capturing <=> current_trace_lines # <<>>
           /\ current_trace_lines # <<>> =>
                  /\ current_trace_lines[1].thr
                  /\ \A j \in 2..Len(current_trace_lines) : ~current_trace_lines[j].thr
           /\ Len(traces) <= ThresholdLinesUpTo(lines, i - 1)
    /\ (pc = "done") => Len(traces) <= ThresholdLinesUpTo(lines, Len(lines))
    /\ (pc = "done" /\ readable /\ min_threshold_ms = 0 /\ filter_pattern.kind = "none") =>
           Len(traces) = ThresholdLinesUpTo(lines, Len(lines))

\* three threshold lines read without a filter, three traces at the end
C24_Witness ==
    /\ pc = "done"
    /\ min_threshold_ms = 0
    /\ filter_pattern.kind = "none"
    /\ Len(lines) = 4
    /\ ThresholdLinesUpTo(lines, 4) = 3
    /\ ~lines[3].thr
    /\ Len(traces) = 3

\* fewer traces than threshold lines between two lines, while Capturing
C24_LoopWitness ==
    /\ pc = "loop"
    /\ capturing
    /\ Len(current_trace_lines) = 2
    /\ ThresholdLinesUpTo(lines, i - 1) = 2
    /\ Len(traces) = 0

\* C25: in an emitted trace no line other than the second is a boundary line
\* that is no threshold line: a boundary line right after the threshold line
\* is appended to the trace, any later one ends the trace before it
C25_BoundaryOnlySecond ==
    \A k \in 1..Len(traces) :
        \A j \in 1..Len(traces[k].lines) :
            (traces[k].lines[j].bnd /\ ~traces[k].lines[j].thr) => j = 2

\* a trace whose second line is a boundary line, with a line after it
C25_Witness ==
    /\ Len(traces) = 1
    /\ Len(traces[1].lines) = 3
    /\ traces[1].lines[2].bnd
    /\ ~traces[1].lines[2].thr
    /\ Len(lines) = 4
    /\ lines[4].bnd /\ ~lines[4].thr

(***************************************************************************)
(* Properties of the run over a debug zip (ZipSpec).                       *)
(***************************************************************************)
\* the traces of one log file, from its lines alone: every threshold line
\* starts a slice that runs up to the next threshold line or, after the second
\* line, the next boundary line; the slices that pass are kept, in file order
RefEnd(ls, s) ==
    CHOOSE e \in s..Len(ls) :
        /\ \/ e = Len(ls)
           \/ threshold_re(ls[e + 1])
           \/ e > s /\ new_log_entry_re(ls[e + 1])
        /\ \A d \in s..(e - 1) :
               ~ \/ threshold_re(ls[d + 1])
                 \/ d > s /\ new_log_entry_re(ls[d + 1])

RECURSIVE RefFrom(_, _)
RefFrom(ls, s) ==
    IF s > Len(ls) THEN <<>>
    ELSE IF threshold_re(ls[s])
         THEN LET tr == SubSeq(ls, s, RefEnd(ls, s))
                  d  == IF ls[s].tok = "num" THEN ls[s].ms ELSE 0
              IN  (IF SegPasses(d, tr)
                     THEN <<[duration |-> d, lines |-> tr]>>
                     ELSE <<>>) \o RefFrom(ls, s + 1)
         ELSE RefFrom(ls, s + 1)

RefTraces(f) ==
    IF ~f.readable \/ filter_pattern.kind = "invalid" THEN <<>> ELSE RefFrom(f.lines, 1)

Occurrences(sq, t) == Cardinality({k \in 1..Len(sq) : sq[k] = t})

RefOccurrences(t) ==
    Cardinality({p \in (1..Len(log_files)) \X (1..MaxLen) :
                    /\ p[2] <= Len(RefTraces(log_files[p[1]]))
                    /\ RefTraces(log_files[p[1]])[p[2]] = t})

\* C21: the traces a log file gives are those of its own lines, whatever files
\* were read before it; numbers are given only after every file was read and
\* the list sorted; the sorted list holds, as a multiset, the traces of all
\* the files, with durations that never increase, so every order of the files
\* gives the same multiset and the same sequence of ranked durations
C21_FilesAreIndependent ==
    /\ \A k \in 1..Len(per_file) : per_file[k] = RefTraces(log_files[k])
    /\ trace_count # 0 =>
           /\ zpc \in {"sorted", "returned"}
           /\ Len(per_file) = Len(log_files)
    /\ zpc \in {"sorted", "returned"} =>
           /\ \A k \in 1..(Len(all_traces) - 1) :
                  all_traces[k].duration >= all_traces[k + 1].duration
           /\ \A k \in 1..Len(all_traces) :
                  Occurrences(all_traces, all_traces[k]) = RefOccurrences(all_traces[k])
           /\ \A f \in 1..Len(log_files) :
                  \A j \in 1..Len(RefTraces(log_files[f])) :
                      LET t == RefTraces(log_files[f])[j]
                      IN  Occurrences(all_traces, t) = RefOccurrences(t)

\* three files were read, the first gave two traces, the second none and the
\* third one; the three traces are numbered, the two of 300 ms first
C21_Witness ==
    /\ zpc = "returned"
    /\ Len(log_files) = 3
    /\ Len(per_file) = 3
    /\ Len(per_file[1]) = 2
    /\ per_file[2] = <<>>
    /\ Len(per_file[3]) = 1
    /\ trace_count = 3
    /\ TraceDurationsOf(all_traces) = <<300, 300, 100>>
    /\ all_traces[1] = per_file[1][2]

UnreadableUpTo(n) == Cardinality({k \in 1..n : ~log_files[k].readable})

\* C22 as stated: the count the run reports is the count of the sources it
\* skipped because they could not be read
C22_CountOfSkippedSources ==
    zpc = "returned" => files_with_zero_traces = UnreadableUpTo(Len(log_files))

\* C22, amended: a log file that cannot be read gives no trace and never ends
\* the run; the files after it are read as well; it is counted in
\* files_with_zero_traces, the count of all the files that gave no trace,
\* readable or not
C22_UnreadableCountedWithZeroTraces ==
    /\ \A k \in 1..Len(per_file) : ~log_files[k].readable => per_file[k] = <<>>
    /\ zpc = "aborted" => log_files[file_no].readable
    /\ zpc \in {"call", "aborted"} => Len(per_file) = file_no - 1
    /\ zpc = "next" => Len(per_file) = file_no - 1
    /\ zpc \in {"sorted", "returned"} => Len(per_file) = Len(log_files)
    /\ files_with_zero_traces =
           Cardinality({k \in 1..Len(per_file) : per_file[k] = <<>>})
    /\ files_with_zero_traces >= UnreadableUpTo(Len(per_file))

\* the first file could not be read, the second gave a trace that was numbered
C22_Witness ==
    /\ zpc = "returned"
    /\ Len(log_files) = 2
    /\ ~log_files[1].readable
    /\ per_file[1] = <<>>
    /\ Len(per_file[2]) = 1
    /\ files_with_zero_traces = 1
    /\ trace_count = 1

\* an unreadable file and a readable one without a trace: the count is 2
C22_SharedCountWitness ==
    /\ zpc = "returned"
    /\ Len(log_files) = 2
    /\ ~log_files[1].readable
    /\ log_files[2].readable
    /\ files_with_zero_traces = 2

(***************************************************************************)
(* Properties of the commit pipeline (PipeSpec).                           *)
(***************************************************************************)
\* what extract_commit_from_trace gives for the k-th trace file
ExtractOf(k) == extract_commit_from_trace(trace_files[k].lines, trace_files[k].readable)

\* the k-th trace file has a well-formed name and a commit section whose
\* duration is null
NullDurationFile(k) ==
    /\ trace_files[k].name_ok
    /\ ExtractOf(k).commit_section # None
    /\ ExtractOf(k).commit_duration = None

PositionsOf(k) == {p \in 1..Len(valid_commits) : valid_commits[p].trace_number = k}

\* C26: a commit section with a null duration is kept by the duration filter
\* whatever --min-duration is; the second loop gives it a category; in the
\* sorted list it stands after every record with a positive duration, and
\* among the records of duration 0 or null in the order the files were found
C26_NullDurationKeptAndRankedAsZero ==
    \A k \in 1..Len(trace_files) :
        (k < file_index /\ NullDurationFile(k)) =>
            /\ Cardinality(PositionsOf(k)) = 1
            /\ \A q \in PositionsOf(k) : valid_commits[q].commit_duration = None
            /\ ppc = "done" =>
                   \E w \in 1..Len(written) :
                       /\ written[w].trace_number = k
                       /\ written[w].category \in
                              {"query_intent", "network", "network_server_client",
                               "network_abnormal", "raft", "store_send",
                               "replica_send", "other"}
            /\ ppc \in {"write", "raised", "done"} =>
                   \A q \in PositionsOf(k) :
                       \A p \in 1..Len(valid_commits) :
                           LET d == valid_commits[p].commit_duration
                           IN  /\ (d # None /\ d[1] > 0) => p < q
                               /\ (d = None \/ d = Some(0)) =>
                                      (p < q <=> valid_commits[p].trace_number < k)

\* a commit of 0 ms, one without a duration and one of 50 ms were found in
\* this order and kept; the one without a duration is written last, after the
\* one of 50 ms and after the one of 0 ms, which was found before it
C26_Witness ==
    /\ ppc = "done"
    /\ Len(trace_files) = 3
    /\ NullDurationFile(2)
    /\ Len(valid_commits) = 3
    /\ valid_commits[1].commit_duration = Some(50)
    /\ valid_commits[2].commit_duration = Some(0)
    /\ valid_commits[3].commit_duration = None
    /\ valid_commits[3].trace_number = 2
    /\ written[3].trace_number = 2

\* a commit below --min-duration and one above --max-duration are filtered,
\* the one without a duration is kept and written
C26_FilterWitness ==
    /\ ppc = "done"
    /\ min_duration = min_duration_default
    /\ Len(trace_files) = 3
    /\ NullDurationFile(3)
    /\ filtered_count = 2
    /\ Len(valid_commits) = 1
    /\ processed_count = 1

WellFormedUpTo(n) == Cardinality({k \in 1..n : trace_files[k].name_ok})

NoCommitUpTo(n) ==
    Cardinality({k \in 1..n :
                    /\ trace_files[k].name_ok
                    /\ \/ ~trace_files[k].readable
                       \/ trace_files[k].lines = <<>>
                       \/ \A j \in 1..Len(trace_files[k].lines) :
                              trace_files[k].lines[j].kind # "commit_marker"})

OutOfRangeUpTo(n) ==
    Cardinality({k \in 1..n :
                    /\ trace_files[k].name_ok
                    /\ ExtractOf(k).commit_section # None
                    /\ ExtractOf(k).commit_duration # None
                    /\ \/ ExtractOf(k).commit_duration[1] < min_duration
                       \/ ExtractOf(k).commit_duration[1] > max_duration})

WrittenWith(cats) == Cardinality({w \in 1..Len(written) : written[w].category \in cats})

FailedWrites == Cardinality({w \in 1..Len(written) : ~written[w].ok})

\* C27: every trace file with a well-formed name is counted once: when the
\* counts are printed processed + skipped + filtered is the number of these
\* files (before that, the kept records not yet written make up the
\* difference); skipped is the number of files without a commit section plus
\* the number of failed writes, filtered the number of files whose duration is
\* below the minimum or above the maximum, and every record the second loop
\* has classified has incremented one category counter
C27_EveryFileCountedOnce ==
    ppc \in {"read", "write", "raised", "done"} =>
        LET n == file_index - 1
        IN  /\ processed_count + skipped_count + filtered_count
                 + (Len(valid_commits) - write_index) = WellFormedUpTo(n)
            /\ ppc = "done" =>
                   processed_count + skipped_count + filtered_count
                       = WellFormedUpTo(Len(trace_files))
            /\ skipped_count = NoCommitUpTo(n) + FailedWrites
            /\ filtered_count = OutOfRangeUpTo(n)
            /\ processed_count = Len(written) - FailedWrites
            /\ ppc \in {"write", "done"} =>
                   /\ Len(written) = write_index
                   /\ query_intent_count + network_count + raft_count
                        + store_send_count + replica_send_count + other_count
                          = write_index
                   /\ query_intent_count = WrittenWith({"query_intent"})
                   /\ network_count = WrittenWith({"network", "network_server_client",
                                                   "network_abnormal"})
                   /\ raft_count = WrittenWith({"raft"})
                   /\ store_send_count = WrittenWith({"store_send"})
                   /\ replica_send_count = WrittenWith({"replica_send"})
                   /\ other_count = WrittenWith({"other"})

\* three files: one without a commit marker, one filtered, one written
C27_Witness ==
    /\ ppc = "done"
    /\ Len(trace_files) = 3
    /\ WellFormedUpTo(3) = 3
    /\ processed_count = 1
    /\ skipped_count = 1
    /\ filtered_count = 1
    /\ FailedWrites = 0

\* a failed write is counted as skipped, a file with a malformed name nowhere,
\* and a server->client commit under network_count
C27_FailedWriteWitness ==
    /\ ppc = "done"
    /\ Len(trace_files) = 3
    /\ WellFormedUpTo(3) = 2
    /\ processed_count = 1
    /\ skipped_count = 1
    /\ FailedWrites = 1
    /\ filtered_count = 0
    /\ network_count = 1
    /\ \E w \in 1..Len(written) : written[w].category = "network_server_client"

=============================================================================
